---------------------------- MODULE Spec2Model ----------------------------
(***************************************************************************)
(* A model of the FinanceAnalyst scanner service (Go):                     *)
(*   - the orchestrator of the four service operations with its cache,     *)
(*     its cancellable scanner task and its fire-and-forget SetScan;       *)
(*   - the chart scanner (DTW + LB_Keogh + overlap suppression);           *)
(*   - the candle scanner (sliding window, overlap filter);                *)
(*   - the request hash, the overlap predicate and the stats evaluator.    *)
(* Each part has its own specification over the shared variables; the      *)
(* variables of the other parts stay at their idle values.                 *)
(***************************************************************************)
EXTENDS Integers, Sequences, FiniteSets, TLC

VARIABLES
    \* ---- orchestrator (services/scanner/scanner.go)
    ttl,        \* Service.ttl
    store,      \* the cache: hash -> [present, list, ttl]
    req,        \* the request being served
    \* ---- request hash (candle/scanQuery.go, chart/scanQuery.go)
    hq,         \* the pair of queries being hashed
    hres,       \* their hashes, once computed
    \* ---- overlap predicate (candle/scanner.go, chart/scanner.go)
    ov,         \* the pair of segments and the two predicates' answers
    \* ---- chart scanner (services/scanner/chart/scanner.go)
    ch,         \* one Scan of the chart scanner
    \* ---- candle scanner (candle/scanner.go)
    cs,         \* one FindMatches of the candle scanner
    \* ---- stats evaluator (stats.Evaluator)
    ev,         \* one ComputeStats of the evaluator
    \* ---- MOEX fetcher (pkg/fetcher/moex/fetcher.go)
    fe,         \* one Fetch of the MOEX fetcher
    \* ---- DTW utilities (pkg/utils/dtw.go)
    dt,         \* a seed vector, a candidate vector and a cost limit
    \* ---- the candle scanner's window loop (candle/scanner.go)
    wm          \* a reference, a ticker's candles and the windows tried

svcVars  == <<ttl, store, req>>
hashVars == <<hq, hres>>
ovVars   == <<ov>>
vars     == <<ttl, store, req, hq, hres, ov, ch, cs, ev, fe, dt, wm>>

\* What the actions of one part leave alone.
notSvc    == <<hq, hres, ov, ch, cs, ev, fe, dt, wm>>
notHash   == <<ttl, store, req, ov, ch, cs, ev, fe, dt, wm>>
notOv     == <<ttl, store, req, hq, hres, ch, cs, ev, fe, dt, wm>>
notChart  == <<ttl, store, req, hq, hres, ov, cs, ev, fe, dt, wm>>
notCandle == <<ttl, store, req, hq, hres, ov, ch, ev, fe, dt, wm>>
notStats  == <<ttl, store, req, hq, hres, ov, ch, cs, fe, dt, wm>>
notFetch  == <<ttl, store, req, hq, hres, ov, ch, cs, ev, dt, wm>>
notDtw    == <<ttl, store, req, hq, hres, ov, ch, cs, ev, fe, wm>>
notWindow == <<ttl, store, req, hq, hres, ov, ch, cs, ev, fe, dt>>

(***************************************************************************)
(*                          THE ORCHESTRATOR                               *)
(***************************************************************************)

\* Bounds of the orchestrator's model.
NumHashes   == 2
MaxTtl      == 2

Hashes == 1..NumHashes

MatchOps == {"ScannerService.FindCandleMatches", "ScannerService.FindChartMatches"}
StatsOps == {"ScannerService.ComputeCandleStats", "ScannerService.ComputeChartStats"}
Ops      == MatchOps \cup StatsOps

\* A Go slice of segments: nil, or a (possibly empty) list. Segments are
\* named by small numbers here; their content is the scanners' business.
NilList      == [isNil |-> TRUE,  segs |-> <<>>]
MkList(s)    == [isNil |-> FALSE, segs |-> s]
\* What Scan may return: the candle scanner returns a nil slice when it
\* found nothing, the chart scanner an empty non-nil one.
ScanLists    == {NilList, MkList(<<>>), MkList(<<1>>), MkList(<<1, 2>>)}

NoEntry      == [present |-> FALSE, list |-> NilList, ttl |-> 0]
NoArgs       == [hash |-> 0, matches |-> NilList, ttl |-> 0]
NoScanResult == [err |-> FALSE, matches |-> NilList]
NoResp       == [kind |-> "none", op |-> "", cause |-> "", matches |-> <<>>]

\* fmt.Errorf("%s: %w", op, cause)
ErrResp(op, cause) == [kind |-> "error", op |-> op, cause |-> cause, matches |-> <<>>]

\* matchesToScanResponse: a response of len(matches) segments; a nil slice
\* and an empty one both give an empty response list.
matchesToScanResponse(list) ==
    [kind |-> "matches", op |-> "", cause |-> "", matches |-> list.segs]

\* scanStatsToComputeStatsResponse(stats), stats being the evaluator's
\* answer for the list it was handed (the evaluator has its own model below).
scanStatsToComputeStatsResponse(list) ==
    [kind |-> "stats", op |-> "", cause |-> "", matches |-> list.segs]

\* The capacity of resCh: make(chan ScanResult, 1).
ResChCap == 1

IdleReq ==
    [pc |-> "idle", op |-> "", hash |-> 0,
     getErr |-> "none", cached |-> NilList,
     cancelled |-> FALSE, cancelEarly |-> FALSE,
     scan |-> "none", scanRes |-> NoScanResult, resCh |-> <<>>,
     woken |-> "none", resp |-> NoResp,
     setCalls |-> 0, setArgs |-> NoArgs, setScan |-> "none",
     statsArg |-> <<>>]

\* Cache.GetScan(ctx, hash): the stored list on a hit, ErrNotFound on a miss,
\* another error for anything else.
GetScan(h) ==
    (IF store[h].present
        THEN {[err |-> "nil", list |-> store[h].list]}
        ELSE {[err |-> "notfound", list |-> NilList]})
    \cup {[err |-> "other", list |-> NilList]}

\* Cache.SetScan(ctx, hash, segments, ttl), when it succeeds.
SetScan(st, a) ==
    [st EXCEPT ![a.hash] = [present |-> TRUE, list |-> a.matches, ttl |-> a.ttl]]

\* A handler that fails the request on a lookup error other than NotFound.
lookupBranchFailsOnError(err, cached) ==
    IF err = "other" THEN "fail"
    ELSE IF err = "nil" /\ ~cached.isNil THEN "hit" ELSE "scan"

\* if err != nil { log } else if cached != nil { return cached }: which way
\* the handler goes after GetScan.
lookupBranch(err, cached) ==
    IF err # "nil" THEN "scan"
    ELSE IF ~cached.isNil THEN "hit" ELSE "scan"

\* What the handler answers from a match list: the list itself (match
\* operations) or the evaluator's stats of it, or its error (stats operations).
Answer(op, list, serr) ==
    IF op \in MatchOps THEN matchesToScanResponse(list)
    ELSE IF serr THEN ErrResp(op, "stats")
    ELSE scanStatsToComputeStatsResponse(list)

Handed(q, op, list) ==
    IF op \in StatsOps THEN Append(q.statsArg, list) ELSE q.statsArg

\* The handler from its entry to its select: hash, GetScan, and either the
\* answer from the cache or the scanner task spawned.
Entry(q, op, h, g, serr) ==
    LET b    == lookupBranch(g.err, g.list)
        base == [q EXCEPT !.op = op, !.hash = h, !.getErr = g.err,
                          !.cached = g.list]
    IN  CASE b = "hit" ->
               [base EXCEPT !.pc = "done", !.resp = Answer(op, g.list, serr),
                            !.statsArg = Handed(q, op, g.list)]
          [] b = "scan" ->
               [base EXCEPT !.pc = "spawned", !.scan = "running"]
          [] OTHER ->
               [base EXCEPT !.pc = "done", !.resp = ErrResp(op, "cache")]

\* case <-ctx.Done()
OnCancel(q) ==
    [q EXCEPT !.pc = "done", !.resp = ErrResp(q.op, "canceled")]

\* A result branch that caches whatever the task sent, error or not.
OnResultCachesErrors(q, res, t, serr) ==
    [q EXCEPT !.pc = "done", !.resCh = Tail(@),
              !.setCalls = @ + 1,
              !.setArgs = [hash |-> q.hash, matches |-> res.matches, ttl |-> t],
              !.setScan = "pending",
              !.resp = IF res.err THEN ErrResp(q.op, "scan")
                       ELSE Answer(q.op, res.matches, serr),
              !.statsArg = IF res.err THEN @ ELSE Handed(q, q.op, res.matches)]

\* case res := <-resCh
OnResult(q, res, t, serr) ==
    IF res.err
    THEN [q EXCEPT !.pc = "done", !.resCh = Tail(@),
                   !.resp = ErrResp(q.op, "scan")]
    ELSE [q EXCEPT !.pc = "done", !.resCh = Tail(@),
                   !.setCalls = @ + 1,
                   !.setArgs = [hash |-> q.hash, matches |-> res.matches, ttl |-> t],
                   !.setScan = "pending",
                   !.resp = Answer(q.op, res.matches, serr),
                   !.statsArg = Handed(q, q.op, res.matches)]

RunBranch(q, b, t, serr) ==
    IF b = "cancel" THEN OnCancel(q) ELSE OnResult(q, Head(q.resCh), t, serr)

\* The cases of the select that are ready.
Ready(q) ==
    (IF q.cancelled THEN {"cancel"} ELSE {}) \cup
    (IF q.resCh # <<>> THEN {"result"} ELSE {})

\* The handler from its entry to its return or its select.
Handle(op) ==
    /\ req.pc = "idle"
    /\ \E h \in Hashes, serr \in (IF op \in StatsOps THEN BOOLEAN ELSE {FALSE}) :
         \E g \in GetScan(h) :
            req' = Entry(req, op, h, g, serr)
    /\ UNCHANGED <<ttl, store, notSvc>>

FindCandleMatches  == Handle("ScannerService.FindCandleMatches")
FindChartMatches   == Handle("ScannerService.FindChartMatches")
ComputeCandleStats == Handle("ScannerService.ComputeCandleStats")
ComputeChartStats  == Handle("ScannerService.ComputeChartStats")

\* The request's context is cancelled (a cancellation before the handler's
\* entry acts like one right after the task is spawned). A handler blocked
\* in its select is woken by the first case that becomes ready.
Cancel ==
    /\ req.pc \in {"spawned", "blocked"}
    /\ ~req.cancelled
    /\ req' = [req EXCEPT !.cancelled = TRUE,
                          !.cancelEarly = (req.scan = "running"),
                          !.woken = IF req.pc = "blocked" /\ @ = "none"
                                    THEN "cancel" ELSE @]
    /\ UNCHANGED <<ttl, store, notSvc>>

\* The scanner task: Scan returns a list or an error ...
ScanReturn ==
    /\ req.scan = "running"
    /\ \E res \in {[err |-> FALSE, matches |-> l] : l \in ScanLists}
                  \cup {[err |-> TRUE, matches |-> NilList]} :
          req' = [req EXCEPT !.scan = "returned", !.scanRes = res]
    /\ UNCHANGED <<ttl, store, notSvc>>

\* A send on a channel without a buffer: it needs the handler waiting in
\* its select.
ScanSendUnbuffered ==
    /\ req.scan = "returned"
    /\ req.pc = "blocked" /\ req.woken = "none"
    /\ req' = [req EXCEPT !.scan = "exited",
                          !.resCh = Append(@, req.scanRes),
                          !.woken = "result"]
    /\ UNCHANGED <<ttl, store, notSvc>>

\* ... and is sent on resCh, after which the task exits.
ScanSend ==
    /\ req.scan = "returned"
    /\ Len(req.resCh) < ResChCap
    /\ req' = [req EXCEPT !.scan = "exited",
                          !.resCh = Append(@, req.scanRes),
                          !.woken = IF req.pc = "blocked" /\ @ = "none"
                                    THEN "result" ELSE @]
    /\ UNCHANGED <<ttl, store, notSvc>>

\* The handler reaches its select: it takes one of the ready cases, or blocks.
Select ==
    /\ req.pc = "spawned"
    /\ IF Ready(req) = {}
       THEN req' = [req EXCEPT !.pc = "blocked"]
       ELSE \E b \in Ready(req), serr \in BOOLEAN :
               req' = RunBranch(req, b, ttl, serr)
    /\ UNCHANGED <<ttl, store, notSvc>>

\* A blocked handler runs the case that woke it.
Wake ==
    /\ req.pc = "blocked"
    /\ req.woken # "none"
    /\ \E serr \in BOOLEAN :
          req' = RunBranch(req, req.woken, ttl, serr)
    /\ UNCHANGED <<ttl, store, notSvc>>

\* go func() { s.cache.SetScan(ctx, hash, res.matches, s.ttl) }(): it stores
\* the list or fails (and is only warned about); it may also never return.
SetScanTask ==
    /\ req.setScan = "pending"
    /\ \E ok \in BOOLEAN :
         /\ req' = [req EXCEPT !.setScan = IF ok THEN "ok" ELSE "failed"]
         /\ store' = IF ok THEN SetScan(store, req.setArgs) ELSE store
    /\ UNCHANGED <<ttl, notSvc>>

\* Requests are served one after another: once a request is answered the
\* next one may come, and the finished one's abandoned scanner task and
\* unfinished SetScan are no longer followed. Handlers of different requests
\* share nothing but the cache.
NextRequest ==
    /\ req.pc = "done"
    /\ req' = IdleReq
    /\ UNCHANGED <<ttl, store, notSvc>>

\* A stored list lives until its TTL expires.
Expire(h) ==
    /\ store[h].present
    /\ store' = [store EXCEPT ![h] = NoEntry]
    /\ UNCHANGED <<ttl, req, notSvc>>

\* The service as NewService builds it, with an empty cache; the other
\* parts of the model stay idle.
SvcInit ==
    /\ ttl \in 1..MaxTtl
    /\ store = [h \in Hashes |-> NoEntry]
    /\ req = IdleReq
    /\ hq = << >> /\ hres = << >>
    /\ ov = << >> /\ ch = << >> /\ cs = << >> /\ ev = << >>
    /\ fe = << >> /\ dt = << >> /\ wm = << >>

SvcNext ==
    \/ FindCandleMatches
    \/ FindChartMatches
    \/ ComputeCandleStats
    \/ ComputeChartStats
    \/ Cancel
    \/ ScanReturn
    \/ ScanSend
    \/ Select
    \/ Wake
    \/ SetScanTask
    \/ NextRequest
    \/ \E h \in Hashes : Expire(h)

SpecSvc == SvcInit /\ [][SvcNext]_vars

(* ---------------- properties of the orchestrator ---------------------- *)

\* The request on the miss path: the scanner task was spawned.
OnMissPath == req.scan # "none"

\* The answer is built from `list`: returned as the response's matches by
\* the match operations, handed (alone) to the evaluator by the stats ones.
BuiltFrom(list) ==
    IF req.op \in MatchOps
    THEN req.resp = matchesToScanResponse(list)
    ELSE /\ req.statsArg = <<list>>
         /\ req.resp \in {scanStatsToComputeStatsResponse(list),
                          ErrResp(req.op, "stats")}

\* C1 (as claimed): whenever GetScan returns a stored list without error,
\* whatever the list (an empty one included), the scanner is not invoked for
\* the request and the answer is built from exactly the cached list.
C1_HitBypassesScanner ==
    req.getErr = "nil" =>
        /\ ~OnMissPath
        /\ req.pc = "done" => BuiltFrom(req.cached)

\* C2 (as claimed): on the miss path, when the cancellation fires before the
\* scanner task has completed, the operation returns the cancellation error
\* wrapped with its name and never invokes SetScan, in every interleaving.
C2_EarlyCancelAlwaysCancels ==
    (req.pc = "done" /\ OnMissPath /\ req.cancelEarly) =>
        /\ req.resp = ErrResp(req.op, "canceled")
        /\ req.setCalls = 0

\* C3: when GetScan fails, with NotFound or with any other error, the
\* operation does not fail because of it: the scanner is run, and the answer
\* is the one of the miss path (the fresh scan's list, the scan's error or
\* the cancellation), the same for both kinds of error.
C3_LookupErrorFallsThrough ==
    req.getErr \in {"notfound", "other"} =>
        /\ OnMissPath
        /\ req.pc = "done" =>
             \/ req.resp = ErrResp(req.op, "canceled")
             \/ req.scanRes.err /\ req.resp = ErrResp(req.op, "scan")
             \/ ~req.scanRes.err /\ BuiltFrom(req.scanRes.matches)

\* C3's case: a lookup that failed with another error than NotFound was
\* answered with the fresh scan's matches.
C3_Witness ==
    /\ req.getErr = "other"
    /\ req.pc = "done"
    /\ req.resp.kind = "matches"
    /\ req.resp.matches = <<1, 2>>

MaxTick        == 3
TicksPerSecond == 2
MaxOption      == 1

Ticks == 0..MaxTick

\* time.Time.Unix(): the whole seconds of the instant.
Unix(t) == t \div TicksPerSecond

\* A candle, and the candle lists of the reference segments.
Candle(d, o, h, l, c) == [date |-> d, open |-> o, high |-> h, low |-> l, close |-> c]
HashCandleLists ==
    { <<Candle(0, 2, 3, 1, 2)>>,
      <<Candle(0, 2, 3, 1, 2), Candle(2, 2, 3, 1, 3)>> }
HashTickerLists == { <<"A">>, <<"A", "B">>, <<"B", "A">> }

\* models.ChartSegment
HashSegments ==
    [ticker : {"A", "B"}, from : {0, 1}, to : {2}, candles : HashCandleLists]

\* candle.ScanOptions{TailLen, BodyTolerance, ShadowTolerance} and
\* chart.ScanOptions{MinScale, MaxScale, Tolerance}, as three numbers.
HashOptions == [kind : {"candle", "chart"}, a : 0..MaxOption, b : {0}, c : {1}]

\* ScanQuery
Queries ==
    [Segment : HashSegments, Options : HashOptions,
     SearchFrom : Ticks, SearchTo : {MaxTick}, Tickers : HashTickerLists]

\* json.Encoder.Encode of a value: one-to-one on the values encoded here
\* (field names and order are fixed, times are written to the nanosecond).
EncodeJSON(v) == v

\* ScanQuery.Hash(): SHA-256, taken as one-to-one, of what is written to it:
\* the candles, the options, the two bounds in Unix seconds and the tickers.
Hash(q) ==
    << EncodeJSON(q.Segment.candles), EncodeJSON(q.Options),
       EncodeJSON(Unix(q.SearchFrom)), EncodeJSON(Unix(q.SearchTo)),
       EncodeJSON(q.Tickers) >>

\* Two queries of one kind are drawn; each is hashed.
HashInit ==
    /\ hq \in {p \in Queries \X Queries : p[1].Options.kind = p[2].Options.kind}
    /\ hres = [i \in {1, 2} |-> << >>]
    /\ ttl = 0 /\ store = << >> /\ req = << >>
    /\ ov = << >> /\ ch = << >> /\ cs = << >> /\ ev = << >>
    /\ fe = << >> /\ dt = << >> /\ wm = << >>

HashQuery(i) ==
    /\ hres[i] = << >>
    /\ hres' = [hres EXCEPT ![i] = Hash(hq[i])]
    /\ UNCHANGED <<hq, notHash>>

HashNext == \E i \in {1, 2} : HashQuery(i)

SpecHash == HashInit /\ [][HashNext]_vars

Hashed == hres[1] # << >> /\ hres[2] # << >>

\* C8 (as claimed): the hashes of two queries are equal if and only if the
\* queries agree on the reference segment, the options, searchFrom, searchTo
\* and the ticker list in order.
C8_HashEqualIffSameQuery ==
    Hashed => ((hres[1] = hres[2]) <=> (hq[1] = hq[2]))

(***************************************************************************)
(*                        THE OVERLAP PREDICATE                            *)
(***************************************************************************)

\* Bound of the dates: days 0..MaxDate.
MaxDate == 3

Dates       == 0..MaxDate
TickerNames == {"A", "B"}

\* time.Time.Before and time.Time.Equal, on days.
Before(t, u) == t < u
Equal(t, u)  == t = u

\* The segments compared: a ticker and any two dates.
OvSegments == [ticker : TickerNames, from : Dates, to : Dates]

\* An overlap predicate for which touching segments overlap.
IsOverlapTouching(seg1, seg2) ==
    IF seg1.ticker # seg2.ticker THEN FALSE
    ELSE ~(Before(seg1.to, seg2.from) \/ Before(seg2.to, seg1.from))

\* candle.IsOverlap
IsOverlap(seg1, seg2) ==
    IF seg1.ticker # seg2.ticker THEN FALSE
    ELSE ~(\/ Before(seg1.to, seg2.from) \/ Equal(seg1.to, seg2.from)
           \/ Before(seg2.to, seg1.from) \/ Equal(seg2.to, seg1.from))

\* chart.isOverlap
isOverlap(seg1, seg2) ==
    IF seg1.ticker # seg2.ticker THEN FALSE
    ELSE ~(\/ Before(seg1.to, seg2.from) \/ Equal(seg1.to, seg2.from)
           \/ Before(seg2.to, seg1.from) \/ Equal(seg2.to, seg1.from))

\* Two segments are drawn; each predicate is applied to (a, b), (b, a), (a, a).
OvInit ==
    /\ ov \in [a : OvSegments, b : OvSegments, candle : {<< >>}, chart : {<< >>}]
    /\ ttl = 0 /\ store = << >> /\ req = << >>
    /\ hq = << >> /\ hres = << >>
    /\ ch = << >> /\ cs = << >> /\ ev = << >>
    /\ fe = << >> /\ dt = << >> /\ wm = << >>

CandleIsOverlap ==
    /\ ov.candle = << >>
    /\ ov' = [ov EXCEPT !.candle = << IsOverlap(ov.a, ov.b), IsOverlap(ov.b, ov.a),
                                     IsOverlap(ov.a, ov.a) >>]
    /\ UNCHANGED notOv

ChartIsOverlap ==
    /\ ov.chart = << >>
    /\ ov' = [ov EXCEPT !.chart = << isOverlap(ov.a, ov.b), isOverlap(ov.b, ov.a),
                                    isOverlap(ov.a, ov.a) >>]
    /\ UNCHANGED notOv

OvNext == CandleIsOverlap \/ ChartIsOverlap

SpecOverlap == OvInit /\ [][OvNext]_vars

\* The overlap of the claims: same ticker, and each segment's `to` strictly
\* after the other's `from`.
Overlapping(a, b) == a.ticker = b.ticker /\ a.to > b.from /\ b.to > a.from

OverlapAnswersRight(r) ==
    r # << >> =>
        /\ r[1] = Overlapping(ov.a, ov.b)
        /\ r[1] = r[2]
        /\ ov.a.from < ov.a.to => r[3]
        /\ ov.a.ticker # ov.b.ticker => ~r[1]
        /\ (ov.a.to = ov.b.from \/ ov.b.to = ov.a.from) => ~r[1]

\* C9: IsOverlap and isOverlap answer true if and only if the segments have
\* the same ticker and a.to > b.from and b.to > a.from; so the answer is
\* symmetric, true of a segment and itself when its from is before its to,
\* false for different tickers and false for touching segments.
C9_OverlapIff == OverlapAnswersRight(ov.candle) /\ OverlapAnswersRight(ov.chart)

\* C9's case: both predicates have answered for two segments of one ticker
\* that touch (a ends where b starts): they do not overlap, and a, whose
\* from is before its to, overlaps itself.
C9_Witness ==
    /\ ov.candle # << >> /\ ov.chart # << >>
    /\ ov.a.ticker = ov.b.ticker
    /\ ov.a.from < ov.a.to /\ ov.a.to = ov.b.from /\ ov.b.from < ov.b.to
    /\ ~ov.candle[1] /\ ~ov.chart[1] /\ ov.candle[3] /\ ov.chart[3]

(***************************************************************************)
(*                       THE NUMERIC UTILITIES                             *)
(*                                                                         *)
(* Prices are whole numbers. The float64 values derived from them (the     *)
(* z-normalized and resampled vectors, the DTW and LB_Keogh costs, the     *)
(* tolerance) are fixed-point numbers: whole multiples of 1/Unit.          *)
(***************************************************************************)

\* The fixed-point unit: 1.0 is Unit.
Unit == 10 * 10

Abs(x)    == IF x < 0 THEN -x ELSE x
Min(x, y) == IF x < y THEN x ELSE y
Max(x, y) == IF x > y THEN x ELSE y

RECURSIVE SumSeq(_)
SumSeq(s) == IF s = << >> THEN 0 ELSE Head(s) + SumSeq(Tail(s))

\* The whole part of the square root of x >= 0, searched between lo and hi.
RECURSIVE SqrtBetween(_, _, _)
SqrtBetween(x, lo, hi) ==
    IF lo >= hi THEN lo
    ELSE LET mid == (lo + hi + 1) \div 2
         IN  IF mid * mid <= x THEN SqrtBetween(x, mid, hi)
             ELSE SqrtBetween(x, lo, mid - 1)

\* math.Sqrt, rounded down and rounded up to a whole number.
SqrtFloor(x) == SqrtBetween(x, 0, Min(x, 46340))
SqrtCeil(x)  == LET r == SqrtFloor(x) IN IF r * r = x THEN r ELSE r + 1

\* utils.ZNormalize: (v - mean) / stddev, zeros when stddev is 0. With
\* D(v) = n*v - sum, that is D(v) * sqrt(n / Sum D^2), here in fixed point.
ZNormalize(data) ==
    LET n   == Len(data)
        sum == SumSeq(data)
        D   == [i \in 1..n |-> n * data[i] - sum]
        sq  == SumSeq([i \in 1..n |-> D[i] * D[i]])
    IN  IF n = 0 THEN << >>
        ELSE IF sq = 0 THEN [i \in 1..n |-> 0]
        ELSE [i \in 1..n |->
                 LET z == SqrtFloor((D[i] * D[i] * n * Unit * Unit) \div sq)
                 IN  IF D[i] < 0 THEN -z ELSE z]

\* utils.Resample: linear interpolation of data to targetLen samples; the
\* position of sample i is i*(m-1)/(targetLen-1) (i counted from 0).
Resample(data, targetLen) ==
    LET m == Len(data)
    IN  IF m = 0 \/ targetLen < 1 THEN << >>
        ELSE IF targetLen = 1 THEN << SumSeq(data) \div m >>
        ELSE [k \in 1..targetLen |->
                 LET num == (k - 1) * (m - 1)
                     idx == num \div (targetLen - 1)
                     rem == num % (targetLen - 1)
                 IN  IF idx >= m - 1 THEN data[m]
                     ELSE data[idx + 1]
                          + ((data[idx + 2] - data[idx + 1]) * rem)
                            \div (targetLen - 1)]

\* int(math.Floor(float64(resampleLen) * (1 - 0.9))): a tenth, rounded down
\* (the constant 1 - 0.9 is exact, and becomes the float64 nearest to 0.1).
EnvelopeWindow(resampleLen) == resampleLen \div 10

RECURSIVE MinOver(_, _, _, _)
MinOver(s, j, hi, acc) ==
    IF j >= hi THEN acc ELSE MinOver(s, j + 1, hi, Min(acc, s[j + 1]))
RECURSIVE MaxOver(_, _, _, _)
MaxOver(s, j, hi, acc) ==
    IF j >= hi THEN acc ELSE MaxOver(s, j + 1, hi, Max(acc, s[j + 1]))

\* utils.LbKeoghEnvelope: for each i (from 0) the least and the greatest of
\* s[i] and of s[j] for max(0, i-window) <= j < min(n, i+window).
LbKeoghEnvelope(s, resampleLen) ==
    LET n      == Len(s)
        window == EnvelopeWindow(resampleLen)
    IN  [lower |-> [k \in 1..n |->
                       MinOver(s, Max(0, k - 1 - window), Min(n, k - 1 + window), s[k])],
         upper |-> [k \in 1..n |->
                       MaxOver(s, Max(0, k - 1 - window), Min(n, k - 1 + window), s[k])]]

\* utils.LbKeoghDistance: the square root of the summed squares of target's
\* excursions out of the envelope, over candidate's indices; rounded up to
\* the unit, so that comparing it with a whole cost is exact.
LbKeoghDistance(candidate, lower, upper, target) ==
    SqrtCeil(SumSeq([i \in 1..Len(candidate) |->
        IF target[i] > upper[i]
        THEN (target[i] - upper[i]) * (target[i] - upper[i])
        ELSE IF target[i] < lower[i]
        THEN (lower[i] - target[i]) * (lower[i] - target[i])
        ELSE 0]))

\* const inf = 1e9 (taken in fixed-point units, far above every cost here).
Inf == 1000000000

\* One row of DTW: cur[0] = inf and, for j = 1..m,
\* cur[j] = |ai - b[j-1]| + min(prev[j], prev[j-1], cur[j-1]).
\* Rows are kept as sequences whose element j+1 is the code's index j.
RECURSIVE DTWRow(_, _, _, _)
DTWRow(ai, b, prev, cur) ==
    LET j == Len(cur)
    IN  IF j > Len(b) THEN cur
        ELSE DTWRow(ai, b, prev,
                    Append(cur, Abs(ai - b[j])
                                + Min(prev[j + 1], Min(prev[j], cur[j]))))

RECURSIVE MinSeq(_)
MinSeq(s) == IF Len(s) = 1 THEN s[1] ELSE Min(Head(s), MinSeq(Tail(s)))

\* The rows i..n of DTW, from the row before; -1 as soon as a row's cells
\* 1..m are all above maxCost.
RECURSIVE DTWRows(_, _, _, _, _)
DTWRows(a, b, maxCost, i, prev) ==
    IF i > Len(a) THEN prev[Len(b) + 1]
    ELSE LET cur    == DTWRow(a[i], b, prev, << Inf >>)
             rowMin == Min(Inf, MinSeq(cur))
         IN  IF rowMin > maxCost THEN -1
             ELSE DTWRows(a, b, maxCost, i + 1, cur)

\* utils.DTW
DTW(a, b, maxCost) ==
    DTWRows(a, b, maxCost, 1, [j \in 1..(Len(b) + 1) |-> IF j = 1 THEN 0 ELSE Inf])

(***************************************************************************)
(*                         THE CHART SCANNER                               *)
(*              (services/scanner/chart/scanner.go)                        *)
(***************************************************************************)

\* runtime.NumCPU()
NumCPU == 2

\* A candle of a chart: its day and its closing price.
ChartCandle(d, c) == [date |-> d, close |-> c]

\* The candles of consecutive days 0, 1, ... with the given closing prices.
Series(closes) == [i \in 1..Len(closes) |-> ChartCandle(i - 1, closes[i])]

\* The reference segments, the ticker lists and the options of the queries.
ChartReferences  == {Series(c) : c \in {<< >>, <<1, 2>>, <<1, 1>>, <<1, 2, 1>>}}
ChartTickerLists == {<< >>, <<"A">>, <<"A", "B">>, <<"A", "A">>}
ChartOption(lo, hi, t) == [MinScale |-> lo, MaxScale |-> hi, Tolerance |-> t]
ChartOptions     == {ChartOption(0, 0, 0),
                     ChartOption(Unit, Unit, Unit \div 2),
                     ChartOption(0, 2 * Unit, (3 * Unit) \div 2),
                     ChartOption(Unit, Unit \div 4, Unit \div 2)}
ChartQueries     == [Segment : [Candles : ChartReferences],
                     Tickers : ChartTickerLists,
                     Options : ChartOptions]

\* What Fetcher.Fetch can answer for a ticker: an error or candles.
FetchOutcomes ==
    {[err |-> TRUE, candles |-> << >>]}
    \cup {[err |-> FALSE, candles |-> Series(c)] :
             c \in {<< >>, <<1, 2, 2>>, <<1, 1, 1>>}}

\* Defaults that take over any positive tolerance.
ChartWithDefaultsAnyTolerance(o) ==
    [MinScale  |-> IF o.MinScale > 0 THEN o.MinScale ELSE (3 * Unit) \div 4,
     MaxScale  |-> IF o.MaxScale > 0 THEN o.MaxScale ELSE (3 * Unit) \div 2,
     Tolerance |-> IF o.Tolerance > 0 THEN o.Tolerance ELSE Unit \div 10]

\* ScanOptions.WithDefaults: 0.75, 1.5 and 0.1 unless set.
ChartWithDefaults(o) ==
    [MinScale  |-> IF o.MinScale > 0 THEN o.MinScale ELSE (3 * Unit) \div 4,
     MaxScale  |-> IF o.MaxScale > 0 THEN o.MaxScale ELSE (3 * Unit) \div 2,
     Tolerance |-> IF o.Tolerance > 0 /\ o.Tolerance <= Unit
                   THEN o.Tolerance ELSE Unit \div 10]

\* getPricesVec: the closing prices, z-normalized and resampled.
getPricesVec(candles, resampledLength) ==
    Resample(ZNormalize([i \in 1..Len(candles) |-> candles[i].close]),
             resampledLength)

\* What findMatches derives from the query before it starts the workers.
seedLen(q) == Len(q.Segment.Candles)

\* A greatest window length of three times the reference's.
maxLenThreefold(q) == seedLen(q) * 3

minLen(q)  == Max(1, (seedLen(q) * ChartWithDefaults(q.Options).MinScale) \div Unit)
maxLen(q)  == (seedLen(q) * ChartWithDefaults(q.Options).MaxScale) \div Unit
seedVec(q) == getPricesVec(q.Segment.Candles, seedLen(q) * 2)
resampledLength(q) == Len(seedVec(q))

\* vecs of findMatchesForSeed: the vector of every window of windowLen candles.
Vecs(candles, windowLen, resampledLen) ==
    [i \in 1..(Len(candles) - windowLen + 1) |->
        getPricesVec(SubSeq(candles, i, i + windowLen - 1), resampledLen)]

\* The window starts sent on tasks: 0 .. n-windowLen.
Tasks(n, windowLen) == [i \in 1..(n - windowLen + 1) |-> i - 1]

\* matchWorker on one task: no match or the one match it sends. Distance is
\* d / resampledLength, kept as d (all matches of a scan share the length).
matchWorker(seed, lower, upper, cacheVecs, winStart, windowLen, ticker, candles, tolerance, resampledLen) ==
    LET maxCost      == tolerance * resampledLen
        candlesVec   == cacheVecs[winStart + 1]
        lb           == LbKeoghDistance(seed, lower, upper, candlesVec)
        d            == DTW(seed, candlesVec, maxCost)
        endIdx       == winStart + windowLen - 1
        matchCandles == SubSeq(candles, winStart + 1, endIdx + 1)
    IN  IF winStart < 0 \/ winStart >= Len(cacheVecs) THEN << >>
        ELSE IF lb > maxCost THEN << >>
        ELSE IF d < 0 \/ d > maxCost THEN << >>
        ELSE IF endIdx >= Len(candles) THEN << >>
        ELSE IF Len(matchCandles) = 0 THEN << >>
        ELSE << [Segment  |-> [ticker  |-> ticker,
                               from    |-> matchCandles[1].date,
                               to      |-> matchCandles[Len(matchCandles)].date,
                               candles |-> matchCandles],
                 Distance |-> d] >>

\* One insertion of sort.Slice's insertion sort: m moves left while its
\* Distance is less than its left neighbour's.
RECURSIVE InsertMatch(_, _)
InsertMatch(sorted, m) ==
    IF sorted = << >> THEN << m >>
    ELSE IF m.Distance < sorted[Len(sorted)].Distance
    THEN Append(InsertMatch(SubSeq(sorted, 1, Len(sorted) - 1), m),
                sorted[Len(sorted)])
    ELSE Append(sorted, m)

\* A sort.Slice that leaves the matches in their order of arrival.
sortSliceKeepingOrder(matches, sorted) == sorted \o matches

\* sort.Slice by Distance. On the lists of up to 12 matches met here it is
\* an insertion sort, which keeps equal matches in their order.
RECURSIVE sortSlice(_, _)
sortSlice(matches, sorted) ==
    IF matches = << >> THEN sorted
    ELSE sortSlice(Tail(matches), InsertMatch(sorted, Head(matches)))

\* The greedy loop of removeOverlaps, comparing with the last kept match only.
RECURSIVE keepAgainstLast(_, _)
keepAgainstLast(matches, result) ==
    IF matches = << >> THEN result
    ELSE LET m == Head(matches)
             overlaps == /\ result # << >>
                         /\ isOverlap(m.Segment, result[Len(result)].Segment)
         IN  keepAgainstLast(Tail(matches),
                             IF overlaps THEN result ELSE Append(result, m))

\* The greedy loop of removeOverlaps: keep m unless it overlaps a kept match.
RECURSIVE keepNonOverlapping(_, _)
keepNonOverlapping(matches, result) ==
    IF matches = << >> THEN result
    ELSE LET m == Head(matches)
             overlaps == \E k \in 1..Len(result) :
                             isOverlap(m.Segment, result[k].Segment)
         IN  keepNonOverlapping(Tail(matches),
                                IF overlaps THEN result ELSE Append(result, m))

removeOverlapsAgainstLast(matches) ==
    IF Len(matches) = 0 THEN matches
    ELSE keepAgainstLast(sortSlice(matches, << >>), << >>)

\* removeOverlaps
removeOverlaps(matches) ==
    IF Len(matches) = 0 THEN matches
    ELSE keepNonOverlapping(sortSlice(matches, << >>), << >>)

\* A ticker worker between two tickers.
IdleWorker == [pc |-> "idle", ticker |-> "", candles |-> << >>, windowLen |-> 0,
               lower |-> << >>, upper |-> << >>, vecs |-> << >>,
               tasks |-> << >>, examined |-> << >>, matchesCh |-> << >>,
               matches |-> << >>]

\* No window start of a window length has been examined: element i+1 counts
\* the turns of matchWorker's loop taken for the start i.
NoneExamined(n, windowLen) == [i \in 1..(n - windowLen + 1) |-> 0]

\* The receivers of Scan and FindMatches: a nil *Scanner, one whose fetcher
\* is nil, and one made by NewScanner with a fetcher.
Scanners == {"nil", "nofetcher", "ready"}

ChInit ==
    /\ ch \in [pc : {"called"}, s : Scanners, query : ChartQueries, tickerCh : {<< >>},
               workers : {<< >>}, allMatches : {<< >>}, result : {NilList},
               fetched : {<< >>}, err : {FALSE}, seedVec : {<< >>}, mu : {0}]
    /\ ttl = 0 /\ store = << >> /\ req = << >>
    /\ hq = << >> /\ hres = << >> /\ ov = << >>
    /\ cs = << >> /\ ev = << >>
    /\ fe = << >> /\ dt = << >> /\ wm = << >>

\* Scan and findMatches up to close(tickerCh): nothing to do for a nil
\* scanner, a nil fetcher, an empty reference or no tickers; else
\* min(NumCPU, len(tickers)) workers start and every ticker is queued.
CanScan == ch.pc = "called"

Scan ==
    /\ CanScan
    /\ LET q == ch.query
       IN  IF ch.s = "nil" \/ ch.s = "nofetcher"
           THEN ch' = [ch EXCEPT !.pc = "done", !.result = NilList, !.err = FALSE]
           ELSE IF seedLen(q) = 0 \/ Len(q.Tickers) = 0
           THEN ch' = [ch EXCEPT !.pc = "done", !.result = NilList, !.err = FALSE]
           ELSE ch' = [ch EXCEPT
                         !.pc = "working",
                         !.seedVec = seedVec(q),
                         !.tickerCh = q.Tickers,
                         !.workers = [w \in 1..Min(NumCPU, Len(q.Tickers)) |->
                                         IdleWorker]]
    /\ UNCHANGED notChart

\* A worker takes the next ticker and fetches its candles; on an error or
\* on fewer than minLen candles it goes on to the next ticker.
CanFetch(w) ==
    /\ ch.pc = "working"
    /\ w \in DOMAIN ch.workers
    /\ ch.workers[w].pc = "idle"
    /\ ch.tickerCh # << >>

WorkerFetch(w) ==
    /\ CanFetch(w)
    /\ \E out \in FetchOutcomes :
         LET q == ch.query
             n == Len(out.candles)
         IN  IF out.err \/ n < minLen(q)
             THEN ch' = [ch EXCEPT
                    !.tickerCh = Tail(@),
                    !.fetched = Append(@, [ticker |-> Head(ch.tickerCh), out |-> out])]
             ELSE ch' = [ch EXCEPT
                    !.tickerCh = Tail(@),
                    !.fetched = Append(@, [ticker |-> Head(ch.tickerCh), out |-> out]),
                    !.workers[w] =
                        IF minLen(q) <= maxLen(q) /\ minLen(q) <= n
                        THEN [IdleWorker EXCEPT
                                !.pc = "match",
                                !.ticker = Head(ch.tickerCh),
                                !.candles = out.candles,
                                !.windowLen = minLen(q),
                                !.lower = LbKeoghEnvelope(ch.seedVec, Len(ch.seedVec)).lower,
                                !.upper = LbKeoghEnvelope(ch.seedVec, Len(ch.seedVec)).upper,
                                !.vecs = Vecs(out.candles, minLen(q), Len(ch.seedVec)),
                                !.tasks = Tasks(n, minLen(q)),
                                !.examined = NoneExamined(n, minLen(q))]
                        ELSE [IdleWorker EXCEPT
                                !.pc = "append",
                                !.ticker = Head(ch.tickerCh),
                                !.candles = out.candles]]
    /\ UNCHANGED notChart

\* One of the NumCPU match workers finishes its task: the tasks in flight
\* are the first NumCPU unfinished ones, and any of them may finish next.
CanMatch(w) ==
    /\ ch.pc = "working"
    /\ w \in DOMAIN ch.workers
    /\ ch.workers[w].pc = "match"
    /\ ch.workers[w].tasks # << >>

MatchTask(w) ==
    /\ CanMatch(w)
    /\ \E k \in 1..Min(NumCPU, Len(ch.workers[w].tasks)) :
         LET q     == ch.query
             wk    == ch.workers[w]
             found == matchWorker(ch.seedVec, wk.lower, wk.upper, wk.vecs,
                                  wk.tasks[k], wk.windowLen, wk.ticker, wk.candles,
                                  ChartWithDefaults(q.Options).Tolerance,
                                  Len(ch.seedVec))
         IN  ch' = [ch EXCEPT
                      !.workers[w].tasks =
                          SubSeq(wk.tasks, 1, k - 1)
                          \o SubSeq(wk.tasks, k + 1, Len(wk.tasks)),
                      !.workers[w].examined[wk.tasks[k] + 1] = @ + 1,
                      !.workers[w].matchesCh = @ \o found]
    /\ UNCHANGED notChart

\* All tasks of a window length are done: matchesCh is closed and drained
\* into matches, and the next window length starts, if there is one.
CanWindowDone(w) ==
    /\ ch.pc = "working"
    /\ w \in DOMAIN ch.workers
    /\ ch.workers[w].pc = "match"
    /\ ch.workers[w].tasks = << >>

WindowDone(w) ==
    /\ CanWindowDone(w)
    /\ LET q    == ch.query
           wk   == ch.workers[w]
           n    == Len(wk.candles)
           next == wk.windowLen + 1
       IN  ch' = [ch EXCEPT !.workers[w] =
                    IF next <= maxLen(q) /\ next <= n
                    THEN [wk EXCEPT !.matches = @ \o wk.matchesCh,
                                    !.matchesCh = << >>,
                                    !.windowLen = next,
                                    !.vecs = Vecs(wk.candles, next, Len(ch.seedVec)),
                                    !.tasks = Tasks(n, next),
                                    !.examined = NoneExamined(n, next)]
                    ELSE [wk EXCEPT !.matches = @ \o wk.matchesCh,
                                    !.matchesCh = << >>,
                                    !.pc = "append"]]
    /\ UNCHANGED notChart

\* An append that does not take the mutex.
LockMuSkipped(w) ==
    /\ ch.pc = "working"
    /\ w \in DOMAIN ch.workers
    /\ ch.workers[w].pc = "append"
    /\ ch' = [ch EXCEPT !.workers[w].pc = "locked"]
    /\ UNCHANGED notChart

\* mu.Lock(): the worker waits until mu is free and takes it.
LockMu(w) ==
    /\ ch.pc = "working"
    /\ w \in DOMAIN ch.workers
    /\ ch.workers[w].pc = "append"
    /\ ch.mu = 0
    /\ ch' = [ch EXCEPT !.mu = w, !.workers[w].pc = "locked"]
    /\ UNCHANGED notChart

\* allMatches = append(allMatches, matches...); mu.Unlock()
AppendMatches(w) ==
    /\ ch.pc = "working"
    /\ w \in DOMAIN ch.workers
    /\ ch.workers[w].pc = "locked"
    /\ ch' = [ch EXCEPT !.allMatches = @ \o ch.workers[w].matches,
                        !.mu = 0,
                        !.workers[w] = IdleWorker]
    /\ UNCHANGED notChart

\* The range over the closed, empty tickerCh ends and the worker returns.
WorkerExit(w) ==
    /\ ch.pc = "working"
    /\ w \in DOMAIN ch.workers
    /\ ch.workers[w].pc = "idle"
    /\ ch.tickerCh = << >>
    /\ ch' = [ch EXCEPT !.workers[w].pc = "exit"]
    /\ UNCHANGED notChart

\* wg.Wait() returns: the overlaps are removed and the segments returned.
CanJoin ==
    /\ ch.pc = "working"
    /\ \A w \in DOMAIN ch.workers : ch.workers[w].pc = "exit"

Join ==
    /\ CanJoin
    /\ LET kept == removeOverlaps(ch.allMatches)
       IN  ch' = [ch EXCEPT
                    !.pc = "done",
                    !.err = FALSE,
                    !.result = MkList([i \in 1..Len(kept) |-> kept[i].Segment])]
    /\ UNCHANGED notChart

ChNext ==
    \/ Scan
    \/ \E w \in 1..NumCPU : WorkerFetch(w)
    \/ \E w \in 1..NumCPU : MatchTask(w)
    \/ \E w \in 1..NumCPU : WindowDone(w)
    \/ \E w \in 1..NumCPU : LockMu(w)
    \/ \E w \in 1..NumCPU : AppendMatches(w)
    \/ \E w \in 1..NumCPU : WorkerExit(w)
    \/ Join

SpecChart == ChInit /\ [][ChNext]_vars

\* C5: the result of a chart scan holds no two segments that overlap (same
\* ticker, each ending after the other begins), whatever was fetched and
\* however the workers interleaved.
C5_ResultHasNoOverlap ==
    ch.pc = "done" =>
        \A i, j \in 1..Len(ch.result.segs) :
            i < j => ~Overlapping(ch.result.segs[i], ch.result.segs[j])

\* A finished scan that kept two segments or more and dropped a candidate.
C5_Witness ==
    /\ ch.pc = "done"
    /\ Len(ch.result.segs) >= 2
    /\ Len(ch.allMatches) > Len(ch.result.segs)

\* The tolerance and the cost limit as the specification states them: 0.1
\* unless the query's tolerance is in (0, 1]; R is twice the reference.
StatedTolerance(q) ==
    IF q.Options.Tolerance > 0 /\ q.Options.Tolerance <= Unit
    THEN q.Options.Tolerance ELSE Unit \div 10
StatedMaxCost(q) == StatedTolerance(q) * (2 * Len(q.Segment.Candles))

\* C6: every segment a chart scan returns was accepted: the DTW cost d of
\* its window against the reference is 0 <= d <= tolerance * R (never the
\* -1 of an abandoned computation, never above the limit).
C6_ResultWithinTolerance ==
    ch.pc = "done" =>
        \A i \in 1..Len(ch.result.segs) :
            LET q == ch.query
                d == DTW(getPricesVec(q.Segment.Candles, 2 * Len(q.Segment.Candles)),
                         getPricesVec(ch.result.segs[i].candles,
                                      2 * Len(q.Segment.Candles)),
                         StatedMaxCost(q))
            IN  d >= 0 /\ d <= StatedMaxCost(q)

\* A finished scan under a tolerance out of range, hence 0.1, that returned
\* a segment of two candles or more.
C6_Witness ==
    /\ ch.pc = "done"
    /\ ch.query.Options.Tolerance > Unit
    /\ Len(ch.result.segs) >= 1
    /\ \E i \in 1..Len(ch.result.segs) : Len(ch.result.segs[i].candles) >= 2

(***************************************************************************)
(*                         THE CANDLE SCANNER                              *)
(*                  (internal/candle/scanner.go)                           *)
(*                                                                         *)
(* A normalized candle keeps its prices as fractions: the fields are the   *)
(* numerators and scale is their common, positive denominator.             *)
(***************************************************************************)

\* matchCh := make(chan models.ChartSegment, 1024)
MatchChCap == 1024

\* The capacity is taken MatchChScale times smaller, so that the workers
\* find matchCh full with the few matches of the series below.
MatchChScale == 512
matchChCap == MatchChCap \div MatchChScale

\* math.Signbit of a difference of prices
Signbit(x) == x < 0

\* Candle.Normalize: (price - min) / rangeVal, rangeVal 1 when max = min.
Normalize(c, min, max) ==
    LET rangeVal == IF max - min = 0 THEN 1 ELSE max - min
    IN  [date  |-> c.date,
         open  |-> c.open - min,
         high  |-> c.high - min,
         low   |-> c.low - min,
         close |-> c.close - min,
         scale |-> rangeVal]

RECURSIVE MaxHigh(_)
MaxHigh(candles) ==
    IF Len(candles) = 1 THEN candles[1].high
    ELSE Max(candles[1].high, MaxHigh(Tail(candles)))
RECURSIVE MinLow(_)
MinLow(candles) ==
    IF Len(candles) = 1 THEN candles[1].low
    ELSE Min(candles[1].low, MinLow(Tail(candles)))

\* models.NormalizeCandles: every price against the lowest low and the
\* highest high of the list.
NormalizeCandles(candles) ==
    IF Len(candles) = 0 THEN << >>
    ELSE [i \in 1..Len(candles) |->
             Normalize(candles[i], MinLow(candles), MaxHigh(candles))]

\* |a - b| > tolerance for two normalized prices and a fixed-point tolerance.
Apart(a, aScale, b, bScale, tolerance) ==
    Abs(a * bScale - b * aScale) * Unit > tolerance * aScale * bScale

\* candle.ScanOptions.withDefaults: TailLen 0 and tolerances 0.1 unless set.
withDefaults(o) ==
    [TailLen         |-> IF o.TailLen > 0 THEN o.TailLen ELSE 0,
     BodyTolerance   |-> IF o.BodyTolerance > 0 THEN o.BodyTolerance
                         ELSE Unit \div 10,
     ShadowTolerance |-> IF o.ShadowTolerance > 0 THEN o.ShadowTolerance
                         ELSE Unit \div 10]

\* The options FindMatches works with: the defaults, TailLen within 0..L.
ClampedOptions(o, L) ==
    LET opts == withDefaults(o)
    IN  [opts EXCEPT !.TailLen = IF @ < 0 THEN 0 ELSE IF @ > L THEN L ELSE @]

\* A tail sign taken from the first candle alone.
tailSignOfFirstCandle(candles) ==
    IF Len(candles) = 0 THEN TRUE
    ELSE Signbit(candles[1].open - candles[1].close)

\* tailSign
tailSign(candles) ==
    IF Len(candles) = 0 THEN TRUE
    ELSE Signbit(candles[1].open - candles[Len(candles)].close)

\* A comparison of one candle that leaves the shadows out.
similarCandleBodyOnly(w, t, bodyTolerance, shadowTolerance) ==
    /\ Signbit(w.open - w.close) = Signbit(t.open - t.close)
    /\ ~Apart(w.open, w.scale, t.open, t.scale, bodyTolerance)
    /\ ~Apart(w.close, w.scale, t.close, t.scale, bodyTolerance)

\* One candle of similarCoreWithShadows: same direction, open and close
\* within bodyTolerance, both shadows within shadowTolerance.
similarCandle(w, t, bodyTolerance, shadowTolerance) ==
    LET candleUpper  == w.high - Max(w.open, w.close)
        patternUpper == t.high - Max(t.open, t.close)
        candleLower  == Min(w.open, w.close) - w.low
        patternLower == Min(t.open, t.close) - t.low
    IN  /\ Signbit(w.open - w.close) = Signbit(t.open - t.close)
        /\ ~Apart(w.open, w.scale, t.open, t.scale, bodyTolerance)
        /\ ~Apart(w.close, w.scale, t.close, t.scale, bodyTolerance)
        /\ ~Apart(candleUpper, w.scale, patternUpper, t.scale, shadowTolerance)
        /\ ~Apart(candleLower, w.scale, patternLower, t.scale, shadowTolerance)

\* A comparison that finds an empty core similar.
similarCoreEmptyAgrees(window, targetCandles, bodyTolerance, shadowTolerance) ==
    \A i \in 1..Len(window) :
        similarCandle(window[i], targetCandles[i], bodyTolerance, shadowTolerance)

\* similarCoreWithShadows
similarCoreWithShadows(window, targetCandles, bodyTolerance, shadowTolerance) ==
    IF Len(window) = 0 \/ Len(targetCandles) = 0 THEN FALSE
    ELSE \A i \in 1..Len(window) :
             similarCandle(window[i], targetCandles[i],
                           bodyTolerance, shadowTolerance)

\* s[from:] of a slice, from counted from 0.
SliceFrom(s, from) == SubSeq(s, from + 1, Len(s))

\* The body of the worker's window loop without the overlap filter.
windowMatchUnfiltered(segment, options, ticker, candles, i) ==
    LET L           == Len(segment.candles)
        opts        == ClampedOptions(options, L)
        normSegment == NormalizeCandles(segment.candles)
        window      == SubSeq(candles, i + 1, i + L)
        normWindow  == NormalizeCandles(window)
        match       == [ticker  |-> ticker,
                        from    |-> window[1].date,
                        to      |-> window[Len(window)].date,
                        candles |-> window]
    IN  IF /\ opts.TailLen > 0
           /\ tailSign(SubSeq(normWindow, 1, opts.TailLen))
                # tailSign(SubSeq(normSegment, 1, opts.TailLen))
        THEN << >>
        ELSE IF ~similarCoreWithShadows(SliceFrom(normWindow, opts.TailLen),
                                        SliceFrom(normSegment, opts.TailLen),
                                        opts.BodyTolerance, opts.ShadowTolerance)
        THEN << >>
        ELSE << match >>

\* The body of the worker's window loop for the window at i: no match, or
\* the match sent on matchCh: same tail direction, similar core, and not
\* overlapping the reference segment.
windowMatch(segment, options, ticker, candles, i) ==
    LET L           == Len(segment.candles)
        opts        == ClampedOptions(options, L)
        normSegment == NormalizeCandles(segment.candles)
        window      == SubSeq(candles, i + 1, i + L)
        normWindow  == NormalizeCandles(window)
        match       == [ticker  |-> ticker,
                        from    |-> window[1].date,
                        to      |-> window[Len(window)].date,
                        candles |-> window]
    IN  IF /\ opts.TailLen > 0
           /\ tailSign(SubSeq(normWindow, 1, opts.TailLen))
                # tailSign(SubSeq(normSegment, 1, opts.TailLen))
        THEN << >>
        ELSE IF ~similarCoreWithShadows(SliceFrom(normWindow, opts.TailLen),
                                        SliceFrom(normSegment, opts.TailLen),
                                        opts.BodyTolerance, opts.ShadowTolerance)
        THEN << >>
        ELSE IF IsOverlap(segment, match) THEN << >>
        ELSE << match >>

\* workerCount: runtime.NumCPU(), at least 2.
workerCount == Max(2, NumCPU)

\* The candles of the model: a rising and a falling one.
Bar(d, kind) == IF kind = "up" THEN Candle(d, 1, 3, 1, 2) ELSE Candle(d, 2, 3, 1, 1)
Bars(kinds)  == [i \in 1..Len(kinds) |-> Bar(i - 1, kinds[i])]

\* The queries: a reference segment (its candles, and the ticker and the
\* dates the client gave it), a ticker list and options.
CandleReferences ==
    [ticker  : {"A"}, from : {0, 1}, to : {1},
     candles : {Bars(<< >>), Bars(<<"up">>), Bars(<<"up", "down">>)}]
CandleTickerLists == {<< >>, <<"A">>, <<"A", "B">>}
CandleOption(n, b, s) == [TailLen |-> n, BodyTolerance |-> b, ShadowTolerance |-> s]
CandleOptions == {CandleOption(0, 0, 0), CandleOption(1, Unit, Unit),
                  CandleOption(3, 0, Unit)}
CandleQueries == [Segment : CandleReferences, Tickers : CandleTickerLists,
                  Options : CandleOptions]

\* What Fetcher.Fetch can answer for a ticker: an error or candles.
CandleFetchOutcomes ==
    {[err |-> TRUE, candles |-> << >>]}
    \cup {[err |-> FALSE, candles |-> Bars(k)] :
             k \in {<<"down">>, <<"up", "down">>, <<"up", "down", "up">>,
                    <<"up", "up", "down">>}}

\* A worker waiting for a ticker.
IdleScanWorker == [pc |-> "idle", ticker |-> "", candles |-> << >>, i |-> 0]

CsInit ==
    /\ cs \in [pc : {"called"}, s : Scanners, query : CandleQueries, sent : {0},
               workers : {<< >>}, matchCh : {<< >>}, matches : {<< >>},
               errCh : {<< >>}, result : {NilList}, fetched : {<< >>},
               err : {FALSE}]
    /\ ttl = 0 /\ store = << >> /\ req = << >>
    /\ hq = << >> /\ hres = << >> /\ ov = << >>
    /\ ch = << >> /\ ev = << >>
    /\ fe = << >> /\ dt = << >> /\ wm = << >>

\* An entry that tests neither the reference nor the ticker list.
FindMatchesUnguarded ==
    /\ cs.pc = "called"
    /\ IF cs.s = "nil" \/ cs.s = "nofetcher"
       THEN cs' = [cs EXCEPT !.pc = "done", !.result = NilList, !.err = FALSE]
       ELSE cs' = [cs EXCEPT
                     !.pc = "working",
                     !.workers = [w \in 1..workerCount |-> IdleScanWorker]]
    /\ UNCHANGED notCandle

\* FindMatches up to the start of its goroutines: nothing to do for a nil
\* scanner, a nil fetcher, an empty reference or no tickers.
FindMatches ==
    /\ cs.pc = "called"
    /\ LET q == cs.query
       IN  IF cs.s = "nil" \/ cs.s = "nofetcher"
           THEN cs' = [cs EXCEPT !.pc = "done", !.result = NilList, !.err = FALSE]
           ELSE IF Len(q.Segment.candles) = 0 \/ Len(q.Tickers) = 0
           THEN cs' = [cs EXCEPT !.pc = "done", !.result = NilList, !.err = FALSE]
           ELSE cs' = [cs EXCEPT
                         !.pc = "working",
                         !.workers = [w \in 1..workerCount |-> IdleScanWorker]]
    /\ UNCHANGED notCandle

\* The feeder hands the next ticker to a waiting worker (tickerCh has no
\* buffer), and the worker fetches: an error goes to errCh unless it is
\* full; candles shorter than the reference have no window.
TakeTicker(w) ==
    /\ cs.pc = "working"
    /\ cs.workers[w].pc = "idle"
    /\ cs.sent < Len(cs.query.Tickers)
    /\ \E out \in CandleFetchOutcomes :
         LET L == Len(cs.query.Segment.candles)
         IN  IF out.err
             THEN cs' = [cs EXCEPT
                           !.sent = @ + 1,
                           !.fetched = Append(@, [ticker |-> cs.query.Tickers[cs.sent + 1],
                                                  out |-> out]),
                           !.errCh = IF Len(@) < workerCount
                                     THEN Append(@, cs.query.Tickers[cs.sent + 1])
                                     ELSE @]
             ELSE IF L > Len(out.candles)
             THEN cs' = [cs EXCEPT
                           !.sent = @ + 1,
                           !.fetched = Append(@, [ticker |-> cs.query.Tickers[cs.sent + 1],
                                                  out |-> out])]
             ELSE cs' = [cs EXCEPT
                           !.sent = @ + 1,
                           !.fetched = Append(@, [ticker |-> cs.query.Tickers[cs.sent + 1],
                                                  out |-> out]),
                           !.workers[w] = [pc      |-> "scan",
                                           ticker  |-> cs.query.Tickers[cs.sent + 1],
                                           candles |-> out.candles,
                                           i       |-> 0]]
    /\ UNCHANGED notCandle

\* A worker handles the window at i, sending its match, if any, on matchCh,
\* and moves to the next window or, after the last, to the next ticker. It
\* can do so when matchCh has room for what it sends (CanSend).
CanSend(w) ==
    /\ cs.pc = "working"
    /\ cs.workers[w].pc = "scan"
    /\ Len(cs.matchCh)
         + Len(windowMatch(cs.query.Segment, cs.query.Options, cs.workers[w].ticker,
                           cs.workers[w].candles, cs.workers[w].i)) <= matchChCap

Window(w) ==
    /\ CanSend(w)
    /\ LET q     == cs.query
           wk    == cs.workers[w]
           found == windowMatch(q.Segment, q.Options, wk.ticker, wk.candles, wk.i)
       IN  cs' = [cs EXCEPT
                    !.matchCh = @ \o found,
                    !.workers[w] =
                        IF wk.i + 1 + Len(q.Segment.candles) <= Len(wk.candles)
                        THEN [wk EXCEPT !.i = @ + 1]
                        ELSE IdleScanWorker]
    /\ UNCHANGED notCandle

\* The draining goroutine moves a match from matchCh to matches.
Drain ==
    /\ cs.pc = "working"
    /\ cs.matchCh # << >>
    /\ cs' = [cs EXCEPT !.matchCh = Tail(@), !.matches = Append(@, Head(cs.matchCh))]
    /\ UNCHANGED notCandle

\* tickerCh is closed and empty: the worker returns.
ScanWorkerExit(w) ==
    /\ cs.pc = "working"
    /\ cs.workers[w].pc = "idle"
    /\ cs.sent = Len(cs.query.Tickers)
    /\ cs' = [cs EXCEPT !.workers[w].pc = "exit"]
    /\ UNCHANGED notCandle

\* A return that does not wait for the draining goroutine.
ReturnWithoutDrain ==
    /\ cs.pc = "working"
    /\ \A w \in 1..workerCount : cs.workers[w].pc = "exit"
    /\ cs' = [cs EXCEPT
                !.pc = "done",
                !.err = FALSE,
                !.errCh = << >>,
                !.matchCh = << >>,
                !.result = IF cs.matches = << >> THEN NilList
                           ELSE MkList(cs.matches)]
    /\ UNCHANGED notCandle

\* wg.Wait() returned, matchCh is closed and drained, done is closed: the
\* errors are logged and matches returned (nil when nothing was appended).
Return ==
    /\ cs.pc = "working"
    /\ \A w \in 1..workerCount : cs.workers[w].pc = "exit"
    /\ cs.matchCh = << >>
    /\ cs' = [cs EXCEPT
                !.pc = "done",
                !.err = FALSE,
                !.errCh = << >>,
                !.result = IF cs.matches = << >> THEN NilList
                           ELSE MkList(cs.matches)]
    /\ UNCHANGED notCandle

CsNext ==
    \/ FindMatches
    \/ \E w \in 1..workerCount : TakeTicker(w)
    \/ \E w \in 1..workerCount : Window(w)
    \/ Drain
    \/ \E w \in 1..workerCount : ScanWorkerExit(w)
    \/ Return

SpecCandle == CsInit /\ [][CsNext]_vars

\* C7: no segment the candle scanner returns overlaps the query's reference
\* segment (same ticker, each ending after the other begins), whatever was
\* fetched and however the workers interleaved.
C7_ResultAvoidsReference ==
    cs.pc = "done" =>
        \A i \in 1..Len(cs.result.segs) :
            ~Overlapping(cs.result.segs[i], cs.query.Segment)

\* A finished scan that returned a segment of the reference's own ticker,
\* beginning on the day the reference ends.
C7_Witness ==
    /\ cs.pc = "done"
    /\ \E i \in 1..Len(cs.result.segs) :
         /\ cs.result.segs[i].ticker = cs.query.Segment.ticker
         /\ cs.result.segs[i].from = cs.query.Segment.to

(***************************************************************************)
(*                        THE STATS EVALUATOR                              *)
(*                   (stats.Evaluator, ComputeStats)                       *)
(*                                                                         *)
(* The float64 sums and ratios are exact fractions [num, den], den > 0.    *)
(***************************************************************************)

\* The most matches of a request and the longest horizon asked for.
MaxMatches == 2
MaxDays    == 2

Rat(n, d)    == [num |-> n, den |-> d]
RatAdd(x, y) == Rat(x.num * y.den + y.num * x.den, x.den * y.den)
RatSub(x, y) == Rat(x.num * y.den - y.num * x.den, x.den * y.den)
RatOver(x, k) == Rat(x.num, x.den * k)

\* The matches of a request: any number of segments ending on day 1.
StatsMatch   == [ticker |-> "A", from |-> 0, to |-> 1, candles |-> << >>]
StatsMatches == {[i \in 1..n |-> StatsMatch] : n \in 0..MaxMatches}

\* What Fetcher.Fetch can answer: an error, with no candles, or candles
\* (rising, falling, and one that closes where it opened).
StatsFetchOutcomes ==
    {[err |-> TRUE, candles |-> << >>]}
    \cup {[err |-> FALSE, candles |-> Bars(k)] :
             k \in {<< >>, <<"up">>, <<"down">>, <<"up", "down">>,
                    <<"down", "down", "up">>}}
    \cup {[err |-> FALSE, candles |-> << Candle(0, 2, 3, 1, 2), Bar(1, "down") >>]}

\* models.ScanStats
ScanStats(total, change, prob) ==
    [TotalMatches |-> total, PriceChange |-> change, Probability |-> prob]
ZeroStats == ScanStats(0, Rat(0, 1), Rat(0, 1))

\* considered, posCtr, posSumChange, negSumChange before the first match.
NoCounts == [considered |-> 0, posCtr |-> 0,
             posSumChange |-> Rat(0, 1), negSumChange |-> Rat(0, 1)]

\* An accounting that counts a match only when its move is not negative.
accountCountingRises(acc, candles, delta) ==
    IF delta >= 0
    THEN [acc EXCEPT !.considered = @ + 1,
                     !.posCtr = @ + 1,
                     !.posSumChange = RatAdd(@, Rat(delta, candles[1].open))]
    ELSE [acc EXCEPT !.negSumChange = RatSub(@, Rat(-delta, candles[1].open))]

\* considered++ and the sums: a move of delta >= 0 counts as positive and
\* adds delta / candles[0].Open, a negative one subtracts |delta| / Open.
account(acc, candles, delta) ==
    IF delta >= 0
    THEN [acc EXCEPT !.considered = @ + 1,
                     !.posCtr = @ + 1,
                     !.posSumChange = RatAdd(@, Rat(delta, candles[1].open))]
    ELSE [acc EXCEPT !.considered = @ + 1,
                     !.negSumChange = RatSub(@, Rat(-delta, candles[1].open))]

\* The move over the first min(daysToWatch, len(candles)) candles.
fixedDelta(candles, daysToWatch) ==
    LET limit == IF daysToWatch > Len(candles) THEN Len(candles) ELSE daysToWatch
    IN  SumSeq([j \in 1..limit |-> candles[j].close - candles[j].open])

\* The move over the leading candles that go the way of the first one.
RECURSIVE lineDeltaFrom(_, _, _)
lineDeltaFrom(candles, sign, delta) ==
    IF candles = << >> THEN delta
    ELSE LET dif == Head(candles).close - Head(candles).open
         IN  IF (dif >= 0) # sign THEN delta
             ELSE lineDeltaFrom(Tail(candles), sign, delta + dif)
\* A move summed over all the forward candles.
lineDeltaOverAll(candles) ==
    SumSeq([j \in 1..Len(candles) |-> candles[j].close - candles[j].open])

lineDelta(candles) ==
    lineDeltaFrom(candles, candles[1].close - candles[1].open >= 0, 0)

\* Calls that ask for the day more whenever the first Fetch did not fail.
fixedCallsAlwaysWidening(first, retry, daysToWatch) ==
    IF ~first.err
    THEN << [days |-> daysToWatch, out |-> first],
            [days |-> daysToWatch + 1, out |-> retry] >>
    ELSE << [days |-> daysToWatch, out |-> first] >>

\* The Fetch calls of one match in the fixed-horizon mode: the first, up to
\* To + daysToWatch days, and, when it did not fail and returned fewer than
\* daysToWatch candles, one more, up to a day later.
fixedCalls(first, retry, daysToWatch) ==
    IF ~first.err /\ Len(first.candles) < daysToWatch
    THEN << [days |-> daysToWatch, out |-> first],
            [days |-> daysToWatch + 1, out |-> retry] >>
    ELSE << [days |-> daysToWatch, out |-> first] >>

\* A loop body in which a failed Fetch discards what was counted so far.
fixedBodyResettingOnError(acc, first, retry, daysToWatch) ==
    LET calls   == fixedCalls(first, retry, daysToWatch)
        candles == calls[Len(calls)].out.candles
    IN  IF first.err THEN NoCounts
        ELSE IF Len(candles) = 0 THEN acc
        ELSE account(acc, candles, fixedDelta(candles, daysToWatch))

\* The loop body of ComputeStats for one match: skipped when the first
\* Fetch fails or when candles, the answer of the last Fetch, is empty.
fixedBody(acc, first, retry, daysToWatch) ==
    LET calls   == fixedCalls(first, retry, daysToWatch)
        candles == calls[Len(calls)].out.candles
    IN  IF first.err THEN acc
        ELSE IF Len(candles) = 0 THEN acc
        ELSE account(acc, candles, fixedDelta(candles, daysToWatch))

\* The loop body of computeLineStats for one match.
lineBody(acc, out) ==
    IF out.err THEN acc
    ELSE IF Len(out.candles) = 0 THEN acc
    ELSE account(acc, out.candles, lineDelta(out.candles))

\* A result that always reports the positive side.
finalStatsOfRises(acc) ==
    IF acc.considered = 0 THEN ZeroStats
    ELSE ScanStats(acc.considered,
                   RatOver(acc.posSumChange, acc.posCtr),
                   Rat(acc.posCtr, acc.considered))

\* A result that averages the moves of all counted matches.
finalStatsAveragingAll(acc) ==
    IF acc.considered = 0 THEN ZeroStats
    ELSE IF acc.posCtr > acc.considered - acc.posCtr
    THEN ScanStats(acc.considered,
                   RatOver(RatAdd(acc.posSumChange, acc.negSumChange), acc.considered),
                   Rat(acc.posCtr, acc.considered))
    ELSE ScanStats(acc.considered,
                   RatOver(RatAdd(acc.posSumChange, acc.negSumChange), acc.considered),
                   Rat(acc.considered - acc.posCtr, acc.considered))

\* A result in which a tie goes to the positive side.
finalStatsTiesRise(acc) ==
    IF acc.considered = 0 THEN ZeroStats
    ELSE IF acc.posCtr >= acc.considered - acc.posCtr
    THEN ScanStats(acc.considered,
                   RatOver(acc.posSumChange, acc.posCtr),
                   Rat(acc.posCtr, acc.considered))
    ELSE ScanStats(acc.considered,
                   RatOver(acc.negSumChange, acc.considered - acc.posCtr),
                   Rat(acc.considered - acc.posCtr, acc.considered))

\* The end of ComputeStats and of computeLineStats: zero stats when no
\* match counted, else the average and the share of the prevailing side,
\* the negative one on a tie.
finalStats(acc) ==
    IF acc.considered = 0 THEN ZeroStats
    ELSE IF acc.posCtr > acc.considered - acc.posCtr
    THEN ScanStats(acc.considered,
                   RatOver(acc.posSumChange, acc.posCtr),
                   Rat(acc.posCtr, acc.considered))
    ELSE ScanStats(acc.considered,
                   RatOver(acc.negSumChange, acc.considered - acc.posCtr),
                   Rat(acc.considered - acc.posCtr, acc.considered))

\* The receivers of ComputeStats: a nil *Evaluator, one whose fetcher is
\* nil, and one made by NewEvaluator with a fetcher.
Evaluators == {"nil", "nofetcher", "ready"}

\* No *models.ScanStats returned yet.
NilStats == << >>

EvInit ==
    /\ ev \in [pc : {"called"}, e : Evaluators, matches : StatsMatches,
               daysToWatch : (-1)..MaxDays, next : {1}, acc : {NoCounts},
               calls : {<< >>}, result : {NilStats}, err : {FALSE}]
    /\ ttl = 0 /\ store = << >> /\ req = << >>
    /\ hq = << >> /\ hres = << >> /\ ov = << >>
    /\ ch = << >> /\ cs = << >>
    /\ fe = << >> /\ dt = << >> /\ wm = << >>

\* An entry that tests the match list only.
ComputeStatsUnguarded ==
    /\ ev.pc = "called"
    /\ ev' = IF Len(ev.matches) = 0
             THEN [ev EXCEPT !.pc = "done", !.result = ZeroStats, !.err = FALSE]
             ELSE IF ev.daysToWatch = 0
             THEN [ev EXCEPT !.pc = "line"]
             ELSE [ev EXCEPT !.pc = "fixed"]
    /\ UNCHANGED notStats

\* ComputeStats up to its loop: zero stats, and no error, for a nil
\* evaluator, a nil fetcher or no matches; the line-trend mode for
\* daysToWatch = 0, the fixed horizon otherwise.
ComputeStats ==
    /\ ev.pc = "called"
    /\ ev' = IF ev.e = "nil" \/ ev.e = "nofetcher"
             THEN [ev EXCEPT !.pc = "done", !.result = ZeroStats, !.err = FALSE]
             ELSE IF Len(ev.matches) = 0
             THEN [ev EXCEPT !.pc = "done", !.result = ZeroStats, !.err = FALSE]
             ELSE IF ev.daysToWatch = 0
             THEN [ev EXCEPT !.pc = "line"]
             ELSE [ev EXCEPT !.pc = "fixed"]
    /\ UNCHANGED notStats

\* One match of the fixed-horizon loop, with the answers of its fetches.
FixedMatch ==
    /\ ev.pc = "fixed"
    /\ ev.next <= Len(ev.matches)
    /\ \E first \in StatsFetchOutcomes, retry \in StatsFetchOutcomes :
         ev' = [ev EXCEPT
                  !.next = @ + 1,
                  !.calls = Append(@, fixedCalls(first, retry, ev.daysToWatch)),
                  !.acc = fixedBody(@, first, retry, ev.daysToWatch)]
    /\ UNCHANGED notStats

\* One match of the line-trend loop: a single Fetch of 30 days.
LineMatch ==
    /\ ev.pc = "line"
    /\ ev.next <= Len(ev.matches)
    /\ \E out \in StatsFetchOutcomes :
         ev' = [ev EXCEPT
                  !.next = @ + 1,
                  !.calls = Append(@, << [days |-> 30, out |-> out] >>),
                  !.acc = lineBody(@, out)]
    /\ UNCHANGED notStats

\* The loop is over: the stats are returned.
StatsReturn ==
    /\ ev.pc \in {"fixed", "line"}
    /\ ev.next > Len(ev.matches)
    /\ ev' = [ev EXCEPT !.pc = "done", !.result = finalStats(ev.acc),
                        !.err = FALSE]
    /\ UNCHANGED notStats

EvNext ==
    \/ ComputeStats
    \/ FixedMatch
    \/ LineMatch
    \/ StatsReturn

SpecStats == EvInit /\ [][EvNext]_vars

\* The matches for which forward candles were obtained: the last Fetch made
\* for the match (the wider one, when there was one) returned candles.
Obtained ==
    {m \in 1..Len(ev.calls) :
        Len(ev.calls[m][Len(ev.calls[m])].out.candles) > 0}

\* C10: in both modes and whatever the fetcher answers, the result of
\* ComputeStats has 0 <= probability <= 1 and totalMatches <= len(matches),
\* and totalMatches is the number of matches for which a non-empty list of
\* forward candles was obtained.
C10_StatsWithinBounds ==
    ev.pc = "done" =>
        /\ ev.result.Probability.den > 0
        /\ 0 <= ev.result.Probability.num
        /\ ev.result.Probability.num <= ev.result.Probability.den
        /\ ev.result.TotalMatches <= Len(ev.matches)
        /\ ev.result.TotalMatches = Cardinality(Obtained)

\* A finished computation in which one match counted and another, whose
\* fetch failed or came back empty, did not.
C10_Witness ==
    /\ ev.pc = "done"
    /\ ev.result.TotalMatches >= 1
    /\ ev.result.TotalMatches < Len(ev.matches)
    /\ ev.result.Probability.num = ev.result.Probability.den

\* The forward candles of match m, its forward delta and its relative move
\* delta / firstForwardCandle.open, from the answers the fetcher gave.
ForwardCandles(m) == ev.calls[m][Len(ev.calls[m])].out.candles
ForwardDelta(m) ==
    IF ev.daysToWatch = 0 THEN lineDelta(ForwardCandles(m))
    ELSE fixedDelta(ForwardCandles(m), ev.daysToWatch)
ForwardMove(m) == Rat(ForwardDelta(m), ForwardCandles(m)[1].open)

Rising  == {m \in Obtained : ForwardDelta(m) >= 0}
Falling == {m \in Obtained : ForwardDelta(m) < 0}
Prevailing == IF Cardinality(Rising) > Cardinality(Falling) THEN Rising ELSE Falling

RatEq(x, y) == x.num * y.den = y.num * x.den

\* The sum of the relative moves of the matches 1..m that are in S.
RECURSIVE MoveSum(_, _)
MoveSum(S, m) ==
    IF m = 0 THEN Rat(0, 1)
    ELSE IF m \in S THEN RatAdd(MoveSum(S, m - 1), ForwardMove(m))
    ELSE MoveSum(S, m - 1)
MeanMove(S) == RatOver(MoveSum(S, Len(ev.calls)), Cardinality(S))

\* C11: with totalMatches > 0 (opens are positive), priceChange >= 0 when
\* the matches with forward delta >= 0 strictly outnumber those with
\* delta < 0 and priceChange <= 0 otherwise, and priceChange is the average
\* of delta / firstForwardCandle.open over the prevailing matches only.
C11_PriceChangeOfPrevailing ==
    (ev.pc = "done" /\ ev.result.TotalMatches > 0) =>
        /\ ev.result.PriceChange.den > 0
        /\ Cardinality(Rising) > Cardinality(Falling) => ev.result.PriceChange.num >= 0
        /\ Cardinality(Rising) <= Cardinality(Falling) => ev.result.PriceChange.num <= 0
        /\ RatEq(ev.result.PriceChange, MeanMove(Prevailing))

\* A finished computation over a rising and a falling match.
C11_Witness ==
    /\ ev.pc = "done"
    /\ Rising # {} /\ Falling # {}
    /\ ev.result.PriceChange.num # 0

\* C12: when as many counted matches have forward delta >= 0 as have
\* delta < 0 (at least one each), the result is the negative side's:
\* probability 1/2 and priceChange = negSumChange / negCtr < 0.
C12_TieReportsNegative ==
    (/\ ev.pc = "done"
     /\ Cardinality(Rising) = Cardinality(Falling)
     /\ Cardinality(Rising) >= 1) =>
        /\ 2 * ev.result.Probability.num = ev.result.Probability.den
        /\ RatEq(ev.result.PriceChange, MeanMove(Falling))
        /\ ev.result.PriceChange.num < 0 /\ ev.result.PriceChange.den > 0

\* A finished computation over one rising and one falling match, each in
\* the fixed-horizon mode.
C12_Witness ==
    /\ ev.pc = "done"
    /\ ev.daysToWatch > 0
    /\ Cardinality(Rising) = 1 /\ Cardinality(Falling) = 1

\* C13: ComputeStats on a nil evaluator, on an evaluator without a fetcher
\* or with no matches returns stats (not nil) with totalMatches = 0,
\* priceChange = 0 and probability = 0, no error, and calls no Fetch.
C13_NothingToEvaluate ==
    (/\ ev.pc = "done"
     /\ ev.e \in {"nil", "nofetcher"} \/ Len(ev.matches) = 0) =>
        /\ ev.result # NilStats
        /\ ev.result.TotalMatches = 0
        /\ ev.result.PriceChange.num = 0
        /\ ev.result.Probability.num = 0
        /\ ~ev.err
        /\ ev.calls = << >>

\* A finished call on an evaluator without a fetcher, given matches.
C13_Witness ==
    /\ ev.pc = "done"
    /\ ev.e = "nofetcher"
    /\ Len(ev.matches) > 0

(***************************************************************************)
(*          The two scanners and the evaluator, side by side               *)
(***************************************************************************)

\* Which of the three operations a behaviour is a call of.
IsChartScan   == DOMAIN ch # {}
IsCandleScan  == DOMAIN cs # {}
IsStatsCall   == DOMAIN ev # {}

\* One call of one of the three operations that fetch.
FetchingInit == ChInit \/ CsInit \/ EvInit
FetchingNext ==
    \/ IsChartScan /\ ChNext
    \/ IsCandleScan /\ CsNext
    \/ IsStatsCall /\ EvNext
SpecFetching == FetchingInit /\ [][FetchingNext]_vars

RECURSIVE ConcatAll(_)
ConcatAll(ss) == IF ss = << >> THEN << >> ELSE Head(ss) \o ConcatAll(Tail(ss))

Count(s, x)   == Cardinality({i \in DOMAIN s : s[i] = x})
SameBag(s, t) == /\ Len(s) = Len(t)
                 /\ \A i \in DOMAIN s : Count(s, s[i]) = Count(t, s[i])

\* The windows of a ticker's candles that qualify in the candle scanner.
QualifyingWindows(q, ticker, candles) ==
    ConcatAll([k \in 1..(Len(candles) - Len(q.Segment.candles) + 1) |->
                  windowMatch(q.Segment, q.Options, ticker, candles, k - 1)])

\* The windows of windowLen candles of a ticker that pass both gates of
\* the chart scanner, and those of every window length.
CandidatesOfLen(q, ticker, candles, windowLen) ==
    LET seed == seedVec(q)
        len  == Len(seed)
        env  == LbKeoghEnvelope(seed, len)
        vecs == Vecs(candles, windowLen, len)
    IN  ConcatAll([k \in 1..(Len(candles) - windowLen + 1) |->
            matchWorker(seed, env.lower, env.upper, vecs,
                        k - 1, windowLen, ticker, candles,
                        ChartWithDefaults(q.Options).Tolerance, len)])
Candidates(q, ticker, candles) ==
    IF Len(candles) < minLen(q) THEN << >>
    ELSE ConcatAll([k \in 1..(Min(maxLen(q), Len(candles)) - minLen(q) + 1) |->
                       CandidatesOfLen(q, ticker, candles, minLen(q) + k - 1)])

\* What the tickers whose Fetch did not fail contribute, the failing ones
\* left out.
CandleContributions ==
    ConcatAll([k \in 1..Len(cs.fetched) |->
        IF cs.fetched[k].out.err THEN << >>
        ELSE QualifyingWindows(cs.query, cs.fetched[k].ticker,
                               cs.fetched[k].out.candles)])
ChartContributions ==
    ConcatAll([k \in 1..Len(ch.fetched) |->
        IF ch.fetched[k].out.err THEN << >>
        ELSE Candidates(ch.query, ch.fetched[k].ticker, ch.fetched[k].out.candles)])

\* The counts over the matches 1..m none of whose fetches failed.
FetchFailed(m) == \E k \in DOMAIN ev.calls[m] : ev.calls[m][k].out.err
RECURSIVE Recount(_)
Recount(m) ==
    IF m = 0 THEN NoCounts
    ELSE IF FetchFailed(m) \/ ForwardCandles(m) = << >> THEN Recount(m - 1)
    ELSE account(Recount(m - 1), ForwardCandles(m), ForwardDelta(m))

\* C14: a failed Fetch never makes the candle scanner, the chart scanner or
\* ComputeStats return an error; every ticker and every match is still
\* processed, and the result is what the tickers and matches whose Fetch
\* did not fail contribute, as if the failing ones were not in the input.
C14_FetchErrorSkipsOnlyItsOwn ==
    /\ (IsCandleScan /\ cs.pc = "done" /\ cs.result # NilList) =>
          /\ ~cs.err
          /\ Len(cs.fetched) = Len(cs.query.Tickers)
          /\ SameBag(cs.result.segs, CandleContributions)
    /\ (IsCandleScan /\ cs.pc = "done" /\ cs.result = NilList) =>
          /\ ~cs.err
          /\ CandleContributions = << >>
    /\ (IsChartScan /\ ch.pc = "done") =>
          /\ ~ch.err
          /\ ch.fetched # << >> => Len(ch.fetched) = Len(ch.query.Tickers)
          /\ SameBag(ch.allMatches, ChartContributions)
          /\ ch.result.segs = [i \in 1..Len(ch.result.segs) |->
                                  removeOverlaps(ch.allMatches)[i].Segment]
    /\ (IsStatsCall /\ ev.pc = "done") =>
          /\ ~ev.err
          /\ ev.calls # << >> => Len(ev.calls) = Len(ev.matches)
          /\ ev.result = finalStats(Recount(Len(ev.calls)))

\* A finished call in which one Fetch failed and another ticker, or another
\* match, contributed to the result.
C14_Witness ==
    \/ /\ IsCandleScan /\ cs.pc = "done"
       /\ \E k \in DOMAIN cs.fetched : cs.fetched[k].out.err
       /\ Len(cs.result.segs) >= 1
    \/ /\ IsChartScan /\ ch.pc = "done"
       /\ \E k \in DOMAIN ch.fetched : ch.fetched[k].out.err
       /\ Len(ch.result.segs) >= 1
    \/ /\ IsStatsCall /\ ev.pc = "done"
       /\ \E m \in DOMAIN ev.calls : FetchFailed(m)
       /\ ev.result.TotalMatches >= 1

\* C15: a scan by either scanner on a nil scanner, on a scanner without a
\* fetcher, for a reference without candles or for no tickers returns an
\* empty list and no error, calls no Fetch and starts no worker.
C15_NothingToScan ==
    /\ (/\ IsChartScan /\ ch.pc = "done"
        /\ \/ ch.s \in {"nil", "nofetcher"}
           \/ Len(ch.query.Segment.Candles) = 0
           \/ Len(ch.query.Tickers) = 0) =>
          /\ ch.result.segs = << >> /\ ~ch.err
          /\ ch.fetched = << >> /\ ch.workers = << >>
    /\ (/\ IsCandleScan /\ cs.pc = "done"
        /\ \/ cs.s \in {"nil", "nofetcher"}
           \/ Len(cs.query.Segment.candles) = 0
           \/ Len(cs.query.Tickers) = 0) =>
          /\ cs.result.segs = << >> /\ ~cs.err
          /\ cs.fetched = << >> /\ cs.workers = << >>

\* A finished scan of a ready scanner that was given tickers and a
\* reference without candles.
C15_Witness ==
    \/ /\ IsCandleScan /\ cs.pc = "done" /\ cs.s = "ready"
       /\ Len(cs.query.Segment.candles) = 0 /\ Len(cs.query.Tickers) > 0
    \/ /\ IsChartScan /\ ch.pc = "done" /\ ch.s = "ready"
       /\ Len(ch.query.Segment.Candles) = 0 /\ Len(ch.query.Tickers) > 0

(***************************************************************************)
(*                          THE MOEX FETCHER                               *)
(*                     (pkg/fetcher/moex/fetcher.go)                       *)
(*                                                                         *)
(* A time is a day, counted from 1 January 2021; 2024 and 2028 are the     *)
(* leap years. The exchange has a daily candle on every MarketGap-th day   *)
(* and answers a request with its candles from `from` to `till`, both      *)
(* included.                                                               *)
(***************************************************************************)

\* const year = 365 * 24 * time.Hour, in days
year == 365

\* The days between two candles of the exchange.
MarketGap == 73

IsLeap(y)     == y % 4 = 3
DaysOfYear(y) == IF IsLeap(y) THEN 366 ELSE 365
RECURSIVE YearStart(_)
YearStart(y)  == IF y = 0 THEN 0 ELSE YearStart(y - 1) + DaysOfYear(y - 1)
RECURSIVE YearOfFrom(_, _)
YearOfFrom(d, y) == IF d < YearStart(y + 1) THEN y ELSE YearOfFrom(d, y + 1)
YearOf(d)     == YearOfFrom(d, 0)

\* t.AddDate(1, 0, 0): the same month and day a year later; 29 February
\* becomes 1 March.
AddYear(d) ==
    LET y == YearOf(d)
        k == d - YearStart(y)
        j == IF IsLeap(y) /\ k >= 60 THEN k - 1
             ELSE IF IsLeap(y + 1) /\ k >= 59 THEN k + 1
             ELSE k
    IN  YearStart(y + 1) + j

\* The answer of the exchange to a request: its candles' days, ascending.
Exchange(from, till) ==
    LET first == ((from + MarketGap - 1) \div MarketGap) * MarketGap
    IN  IF first > till THEN << >>
        ELSE [i \in 1..((till - first) \div MarketGap + 1) |->
                 first + (i - 1) * MarketGap]

\* The calls of Fetch: a ticker, valid or not, and a window.
FetchFroms == {0, 364, 1000, 1100}
FetchSpans == {-1, 0, 364, 365, 366, 731, 1096}

FeInit ==
    /\ fe \in [pc : {"called"}, valid : BOOLEAN, from : FetchFroms,
               span : FetchSpans, to : {0}, start : {0}, end : {0},
               requests : {<< >>}, candles : {<< >>}, err : {FALSE}]
    /\ ttl = 0 /\ store = << >> /\ req = << >>
    /\ hq = << >> /\ hres = << >> /\ ov = << >>
    /\ ch = << >> /\ cs = << >> /\ ev = << >> /\ dt = << >> /\ wm = << >>

\* Fetch up to its loop: an error for an invalid ticker or for from after
\* to; one request for a window shorter than a year.
Fetch ==
    /\ fe.pc = "called"
    /\ LET to == fe.from + fe.span
       IN  IF ~fe.valid \/ fe.from > to
           THEN fe' = [fe EXCEPT !.pc = "done", !.to = to, !.err = TRUE]
           ELSE IF to - fe.from < year
           THEN \E ok \in BOOLEAN :
                  fe' = [fe EXCEPT
                           !.pc = "done", !.to = to,
                           !.requests = << [from |-> fe.from, till |-> to] >>,
                           !.candles = IF ok THEN Exchange(fe.from, to) ELSE << >>,
                           !.err = ~ok]
           ELSE fe' = [fe EXCEPT !.pc = "loop", !.to = to,
                                 !.start = fe.from, !.end = to]
    /\ UNCHANGED notFetch

\* One turn of the loop: end is a year after start if end was more than a
\* year after from, else to; the candles of [start, end] are appended, or
\* Fetch fails; start moves a year on.
FetchPeriod ==
    /\ fe.pc = "loop"
    /\ fe.start <= fe.to
    /\ LET end == IF fe.end - fe.from > year THEN AddYear(fe.start) ELSE fe.to
       IN  \E ok \in BOOLEAN :
             fe' = IF ok
                   THEN [fe EXCEPT
                           !.end = end,
                           !.requests = Append(@, [from |-> fe.start, till |-> end]),
                           !.candles = @ \o Exchange(fe.start, end),
                           !.start = AddYear(fe.start)]
                   ELSE [fe EXCEPT
                           !.pc = "done",
                           !.end = end,
                           !.requests = Append(@, [from |-> fe.start, till |-> end]),
                           !.candles = << >>,
                           !.err = TRUE]
    /\ UNCHANGED notFetch

\* start is after to: the candles are returned.
FetchReturn ==
    /\ fe.pc = "loop"
    /\ fe.start > fe.to
    /\ fe' = [fe EXCEPT !.pc = "done"]
    /\ UNCHANGED notFetch

FeNext == Fetch \/ FetchPeriod \/ FetchReturn

SpecFetch == FeInit /\ [][FeNext]_vars

\* C16: for a valid ticker and from <= to, windows of a year or more
\* included, every request of Fetch covers a part of [from, to], and the
\* candles returned are dated within [from, to], ascending, none twice.
C16_FetchStaysInWindow ==
    (fe.pc = "done" /\ fe.valid /\ fe.from <= fe.to /\ ~fe.err) =>
        /\ \A r \in DOMAIN fe.requests :
              fe.from <= fe.requests[r].from /\ fe.requests[r].till <= fe.to
        /\ \A i \in DOMAIN fe.candles :
              fe.from <= fe.candles[i] /\ fe.candles[i] <= fe.to
        /\ \A i, j \in DOMAIN fe.candles :
              i < j => fe.candles[i] < fe.candles[j]

(***************************************************************************)
(*                  THE LB_KEOGH GATE BEFORE DTW                           *)
(*        (pkg/utils/dtw.go, as matchWorker calls them in turn)            *)
(***************************************************************************)

\* The greatest length of the vectors drawn in full, and the length of the
\* longer vectors, from which the envelope's window is not empty.
MaxVecLen == 3
LongVecLen == 10

\* A rise of `width` samples that starts after `at` samples.
Pulse(at, width) == [i \in 1..LongVecLen |-> IF i > at /\ i <= at + width THEN 2 ELSE 1]

\* Vectors of a length: every vector over three levels and every
\* z-normalized series over two prices; for the long length, the
\* z-normalized pulses.
DtwVectors(R) ==
    IF R = LongVecLen
    THEN {ZNormalize(Pulse(at, 3)) : at \in 1..4}
    ELSE [1..R -> {0, Unit, 2 * Unit}] \cup {ZNormalize(p) : p \in [1..R -> {1, 2}]}

DtwLengths == (2..MaxVecLen) \cup {LongVecLen}

DtwMaxCosts == {0, Unit \div 2, Unit, 3 * Unit}

DtInit ==
    /\ \E R \in DtwLengths :
          dt \in [pc : {"drawn"}, R : {R},
                  seedVec : DtwVectors(R), candidateVec : DtwVectors(R),
                  maxCost : DtwMaxCosts,
                  lower : {<< >>}, upper : {<< >>}, lb : {0}, d : {0}]
    /\ ttl = 0 /\ store = << >> /\ req = << >>
    /\ hq = << >> /\ hres = << >> /\ ov = << >>
    /\ ch = << >> /\ cs = << >> /\ ev = << >> /\ fe = << >> /\ wm = << >>

\* lower, upper := utils.LbKeoghEnvelope(seedVec, resampledLength)
Envelope ==
    /\ dt.pc = "drawn"
    /\ LET env == LbKeoghEnvelope(dt.seedVec, dt.R)
       IN  dt' = [dt EXCEPT !.pc = "envelope",
                            !.lower = env.lower, !.upper = env.upper]
    /\ UNCHANGED notDtw

\* lb := utils.LbKeoghDistance(seedVec, lower, upper, candlesVec)
LowerBound ==
    /\ dt.pc = "envelope"
    /\ dt' = [dt EXCEPT !.pc = "bound",
                        !.lb = LbKeoghDistance(dt.seedVec, dt.lower, dt.upper,
                                               dt.candidateVec)]
    /\ UNCHANGED notDtw

\* d := utils.DTW(seedVec, candlesVec, maxCost)
Cost ==
    /\ dt.pc = "bound"
    /\ dt' = [dt EXCEPT !.pc = "done",
                        !.d = DTW(dt.seedVec, dt.candidateVec, dt.maxCost)]
    /\ UNCHANGED notDtw

DtNext == Envelope \/ LowerBound \/ Cost

SpecDtw == DtInit /\ [][DtNext]_vars

\* C17: whenever the LB_Keogh distance of a candidate from the seed's
\* envelope is above maxCost, the DTW cost of the pair is above maxCost too
\* (DTW answers -1 or a cost above maxCost), so the gate drops no window
\* that DTW would keep.
C17_LbKeoghGateIsSound ==
    (dt.pc = "done" /\ dt.lb > dt.maxCost) =>
        (dt.d < 0 \/ dt.d > dt.maxCost)

(***************************************************************************)
(*             THE ORDER OF THE CHART SCANNER'S RESULT                     *)
(***************************************************************************)

\* The fetcher gave one answer per ticker.
AnswersFixed ==
    \A i, j \in DOMAIN ch.fetched :
        ch.fetched[i].ticker = ch.fetched[j].ticker =>
            ch.fetched[i].out = ch.fetched[j].out

\* The list Scan returns when every ticker is worked in the order of the
\* ticker list and every window in the order of its offset: the schedule in
\* which one worker and one match worker do all the work.
InOrderResult ==
    LET kept == removeOverlaps(ChartContributions)
    IN  [i \in 1..Len(kept) |-> kept[i].Segment]

\* C18: for a fixed query and fixed answers of the fetcher, every
\* interleaving of the workers returns the same list in the same order,
\* windows of equal distance included.
C18_ResultIsDeterministic ==
    (IsChartScan /\ ch.pc = "done" /\ ~ch.err /\ AnswersFixed) =>
        ch.result.segs = InOrderResult

(***************************************************************************)
(*              THE CANDLE SCANNER'S GOROUTINES TO THE END                 *)
(*                                                                         *)
(* The Go scheduler runs a goroutine that can take a step, and Fetch       *)
(* returns: a step that stays possible is taken.                           *)
(***************************************************************************)

\* WF_vars(\E w : Window(w)), its ENABLED written as the guard of Window: a
\* step of Window always changes the worker.
WindowFairness ==
    \/ []<>(~\E w \in 1..workerCount : CanSend(w))
    \/ []<><<\E w \in 1..workerCount : Window(w)>>_vars

SpecCandleLive ==
    /\ CsInit /\ [][CsNext]_vars
    /\ WF_vars(FindMatches)
    /\ WF_vars(\E w \in 1..workerCount : TakeTicker(w))
    /\ WindowFairness
    /\ WF_vars(Drain)
    /\ WF_vars(\E w \in 1..workerCount : ScanWorkerExit(w))
    /\ WF_vars(Return)

\* C19: FindMatches always returns, whatever the number of tickers (fewer
\* than workers included) and of matches (more than matchCh holds
\* included); when it has returned every worker has exited, matchCh is
\* empty, and the list holds each qualifying window of each ticker whose
\* Fetch succeeded exactly once.
C19_CandleScanTerminates ==
    /\ <>(cs.pc = "done")
    /\ [](cs.pc = "done" =>
            /\ \A w \in DOMAIN cs.workers : cs.workers[w].pc = "exit"
            /\ cs.matchCh = << >>
            /\ SameBag(cs.result.segs, CandleContributions))

\* A scan that returned more matches than matchCh holds.
C19_Witness ==
    /\ cs.pc = "done"
    /\ cs.workers # << >>
    /\ Len(cs.result.segs) > matchChCap

(***************************************************************************)
(*              THE CHART SCANNER'S GOROUTINES TO THE END                  *)
(*                                                                         *)
(* The Go scheduler runs a goroutine that can take a step, and Fetch       *)
(* returns: a step that stays possible is taken.                           *)
(***************************************************************************)

\* The steps that compute vectors and distances, and when one is possible.
ComputeStep ==
    \/ Scan
    \/ \E w \in 1..NumCPU : WorkerFetch(w)
    \/ \E w \in 1..NumCPU : MatchTask(w)
    \/ \E w \in 1..NumCPU : WindowDone(w)
    \/ Join
CanCompute ==
    \/ CanScan
    \/ \E w \in 1..NumCPU : CanFetch(w)
    \/ \E w \in 1..NumCPU : CanMatch(w)
    \/ \E w \in 1..NumCPU : CanWindowDone(w)
    \/ CanJoin

\* WF_vars(ComputeStep), its ENABLED written as the guards of the steps:
\* each of them changes the state.
ComputeFairness == []<>(~CanCompute) \/ []<><<ComputeStep>>_vars

\* The scans followed to their end: those of ChInit whose ticker list names
\* no ticker twice.
ChLiveInit ==
    /\ ch \in [pc : {"called"}, s : Scanners,
               query : {q \in ChartQueries : q.Tickers # <<"A", "A">>},
               tickerCh : {<< >>},
               workers : {<< >>}, allMatches : {<< >>}, result : {NilList},
               fetched : {<< >>}, err : {FALSE}, seedVec : {<< >>}, mu : {0}]
    /\ ttl = 0 /\ store = << >> /\ req = << >>
    /\ hq = << >> /\ hres = << >> /\ ov = << >>
    /\ cs = << >> /\ ev = << >>
    /\ fe = << >> /\ dt = << >> /\ wm = << >>

SpecChartLive ==
    /\ ChLiveInit /\ [][ChNext]_vars
    /\ ComputeFairness
    /\ WF_vars(\E w \in 1..NumCPU : LockMu(w))
    /\ WF_vars(\E w \in 1..NumCPU : AppendMatches(w))
    /\ WF_vars(\E w \in 1..NumCPU : WorkerExit(w))

\* While a worker is on a window length: every start 0 .. n-windowLen is
\* either still on tasks, once, or was examined, once; matchesCh, of
\* capacity n, holds no more matches than starts were examined.
OffsetsOnce(wk) ==
    LET n == Len(wk.candles)
    IN  /\ DOMAIN wk.examined = 1..(n - wk.windowLen + 1)
        /\ \A o \in 0..(n - wk.windowLen) :
              wk.examined[o + 1] + Count(wk.tasks, o) = 1
        /\ \A k \in DOMAIN wk.tasks : wk.tasks[k] \in 0..(n - wk.windowLen)
        /\ Len(wk.matchesCh) <= SumSeq(wk.examined)
        /\ SumSeq(wk.examined) <= n

\* mu is held by the one worker that is appending.
MuHeldByAppender ==
    \A w \in DOMAIN ch.workers : (ch.workers[w].pc = "locked") <=> (ch.mu = w)

\* C20: for each ticker and window length every start in [0, n-windowLen]
\* is examined exactly once and no send on matchesCh has to wait; allMatches
\* is appended to only by the holder of mu and is read by removeOverlaps
\* only when every worker has exited, holding then each window that passes
\* both gates exactly once; and Scan returns.
C20_ChartScanExaminesOnceAndTerminates ==
    /\ [](\A w \in DOMAIN ch.workers :
             ch.workers[w].pc = "match" => OffsetsOnce(ch.workers[w]))
    /\ [](ch.pc = "working" => MuHeldByAppender)
    /\ [][ch.allMatches' # ch.allMatches =>
             /\ ch.mu # 0
             /\ ch.allMatches' = ch.allMatches \o ch.workers[ch.mu].matches]_vars
    /\ [][(ch.pc = "working" /\ ch.pc' = "done") =>
             /\ \A w \in DOMAIN ch.workers : ch.workers[w].pc = "exit"
             /\ ch.mu = 0
             /\ SameBag(ch.allMatches, ChartContributions)]_vars
    /\ <>(ch.pc = "done")

\* A scan that returned after two workers appended windows that passed
\* the gates.
C20_Witness ==
    /\ ch.pc = "done"
    /\ Len(ch.workers) > 1
    /\ Len(ch.allMatches) > 2
    /\ \E i, j \in DOMAIN ch.allMatches :
          ch.allMatches[i].Segment.ticker # ch.allMatches[j].Segment.ticker

(***************************************************************************)
(*               THE CANDLE SCANNER'S WINDOW LOOP                          *)
(*          (candle/scanner.go, FindMatches, for one ticker)               *)
(***************************************************************************)

\* The most candles a ticker's Fetch answers here.
MaxFetched == 3

\* Candle shapes: a rising and a falling candle, and a rising one at
\* higher prices under a long upper shadow.
Shape(d, kind) ==
    IF kind = "up" THEN Candle(d, 1, 3, 1, 2)
    ELSE IF kind = "down" THEN Candle(d, 2, 3, 1, 1)
    ELSE Candle(d, 2, 10, 2, 4)
ShapeKinds == {"up", "down", "tall"}
Shapes(kinds) == [i \in 1..Len(kinds) |-> Shape(i - 1, kinds[i])]
ShapeLists(n) == {Shapes(k) : k \in [1..n -> ShapeKinds]}

WindowReferences ==
    [ticker : {"A"}, from : {0, 1}, to : {1},
     candles : ShapeLists(1) \cup ShapeLists(2)
               \cup {Shapes(k) : k \in [1..3 -> {"up", "down"}]}]
WindowOptions ==
    [TailLen : {-1, 0, 1, 2, 3}, BodyTolerance : {0, Unit \div 2},
     ShadowTolerance : {0, Unit \div 2}]

WmInit ==
    /\ \E n \in 1..MaxFetched :
          wm \in [pc : {"called"}, segment : WindowReferences,
                  options : WindowOptions, ticker : {"A", "B"},
                  candles : ShapeLists(n),
                  opts : {<< >>}, targetTailSign : {TRUE}, i : {0},
                  out : {<< >>}]
    /\ ttl = 0 /\ store = << >> /\ req = << >>
    /\ hq = << >> /\ hres = << >> /\ ov = << >>
    /\ ch = << >> /\ cs = << >> /\ ev = << >>
    /\ fe = << >> /\ dt = << >>

\* opts := options.withDefaults(), TailLen brought within 0..L, and the
\* tail sign of the normalized reference.
PrepareOptions ==
    /\ wm.pc = "called"
    /\ LET L    == Len(wm.segment.candles)
           opts == ClampedOptions(wm.options, L)
       IN  wm' = [wm EXCEPT
                    !.pc = "loop",
                    !.opts = opts,
                    !.targetTailSign =
                        tailSign(SubSeq(NormalizeCandles(wm.segment.candles),
                                        1, opts.TailLen))]
    /\ UNCHANGED notWindow

\* One turn of `for i := 0; i+L <= len(candles); i++`.
TryWindow ==
    /\ wm.pc = "loop"
    /\ wm.i + Len(wm.segment.candles) <= Len(wm.candles)
    /\ wm' = [wm EXCEPT
                !.out = @ \o windowMatch(wm.segment, wm.options, wm.ticker,
                                         wm.candles, wm.i),
                !.i = @ + 1]
    /\ UNCHANGED notWindow

\* The loop's condition fails: the ticker is finished.
WindowsDone ==
    /\ wm.pc = "loop"
    /\ wm.i + Len(wm.segment.candles) > Len(wm.candles)
    /\ wm' = [wm EXCEPT !.pc = "done"]
    /\ UNCHANGED notWindow

WmNext == PrepareOptions \/ TryWindow \/ WindowsDone

SpecWindow == WmInit /\ [][WmNext]_vars

\* The window of L candles at offset i as a segment of the ticker.
WindowAt(i) ==
    LET L      == Len(wm.segment.candles)
        window == SubSeq(wm.candles, i + 1, i + L)
    IN  [ticker |-> wm.ticker, from |-> window[1].date,
         to |-> window[L].date, candles |-> window]

\* |x/xr - y/yr| <= tol for prices or lengths x, y of two series of ranges
\* xr, yr, tol in fixed point.
WithinOf(x, xr, y, yr, tol) == Abs(x * yr - y * xr) * Unit <= tol * xr * yr

\* The range of a series: its highest high less its lowest low, 1 if equal.
RangeOf(series) ==
    IF MaxHigh(series) = MinLow(series) THEN 1
    ELSE MaxHigh(series) - MinLow(series)

\* Conditions (a) and (b) of the statement for the window at offset i, with
\* tail length t and the tolerances in force.
StatedTailGate(window, ref, t) ==
    t = 0 \/ ((window[1].open - window[t].close < 0)
                 <=> (ref[1].open - ref[t].close < 0))
StatedCore(window, ref, t, body, shadow) ==
    \A k \in (t + 1)..Len(ref) :
        LET w  == window[k]
            r  == ref[k]
            wr == RangeOf(window)
            rr == RangeOf(ref)
        IN  /\ (w.open - w.close < 0) <=> (r.open - r.close < 0)
            /\ WithinOf(w.open - MinLow(window), wr, r.open - MinLow(ref), rr, body)
            /\ WithinOf(w.close - MinLow(window), wr, r.close - MinLow(ref), rr, body)
            /\ WithinOf(w.high - Max(w.open, w.close), wr,
                        r.high - Max(r.open, r.close), rr, shadow)
            /\ WithinOf(Min(w.open, w.close) - w.low, wr,
                        Min(r.open, r.close) - r.low, rr, shadow)
StatedQualifies(i) ==
    LET ref == wm.segment.candles
        win == WindowAt(i)
    IN  /\ StatedTailGate(win.candles, ref, wm.opts.TailLen)
        /\ StatedCore(win.candles, ref, wm.opts.TailLen,
                      wm.opts.BodyTolerance, wm.opts.ShadowTolerance)
        /\ ~(/\ win.ticker = wm.segment.ticker
             /\ win.to > wm.segment.from
             /\ wm.segment.to > win.from)

InOut(m) == \E k \in DOMAIN wm.out : wm.out[k] = m

\* C21: with tailLen < L the window at offset i is returned if and only if
\* the tail gate passes, every core candle agrees with the reference's in
\* direction, in open and close within bodyTolerance and in both shadows
\* within shadowTolerance (each series normalized by its own lowest low and
\* highest high), and the window does not overlap the reference; what is
\* returned is such a window, its L candles unchanged, from and to the
\* dates of its first and last candle, and no window twice.
C21_WindowReturnedIffSimilar ==
    (wm.pc = "done" /\ wm.opts.TailLen < Len(wm.segment.candles)) =>
        LET last == Len(wm.candles) - Len(wm.segment.candles)
        IN  /\ \A i \in 0..last : InOut(WindowAt(i)) <=> StatedQualifies(i)
            /\ \A k \in DOMAIN wm.out : \E i \in 0..last : wm.out[k] = WindowAt(i)
            /\ \A j, k \in DOMAIN wm.out : j # k => wm.out[j] # wm.out[k]

\* A ticker with a window returned and a window turned down by the core
\* comparison alone.
C21_Witness ==
    /\ wm.pc = "done"
    /\ wm.opts.TailLen < Len(wm.segment.candles)
    /\ wm.out # << >>
    /\ \E i \in 0..(Len(wm.candles) - Len(wm.segment.candles)) :
          /\ ~InOut(WindowAt(i))
          /\ StatedTailGate(WindowAt(i).candles, wm.segment.candles, wm.opts.TailLen)
          /\ WindowAt(i).ticker # wm.segment.ticker

\* Whether first.open - last.close over the first t candles of a series is
\* negative, on the normalized values.
StatedTailSign(series, t) ==
    (series[1].open - MinLow(series)) - (series[t].close - MinLow(series)) < 0

\* The rest of what decides on the window at offset i: the core and the
\* overlap with the reference.
StatedRest(i) ==
    LET win == WindowAt(i)
    IN  /\ StatedCore(win.candles, wm.segment.candles, wm.opts.TailLen,
                      wm.opts.BodyTolerance, wm.opts.ShadowTolerance)
        /\ ~(/\ win.ticker = wm.segment.ticker
             /\ win.to > wm.segment.from
             /\ wm.segment.to > win.from)

\* C22: with 1 <= tailLen < L a window whose sign of (first tail open -
\* last tail close) differs from the reference's is turned down, and one
\* whose sign agrees is decided by the core and the overlap alone, whatever
\* its tail candles are one by one; with tailLen = 0 there is no tail gate.
C22_TailGateIsOneSign ==
    (wm.pc = "done" /\ wm.opts.TailLen < Len(wm.segment.candles)) =>
        \A i \in 0..(Len(wm.candles) - Len(wm.segment.candles)) :
            LET t    == wm.opts.TailLen
                same == StatedTailSign(WindowAt(i).candles, t)
                          <=> StatedTailSign(wm.segment.candles, t)
            IN  /\ (t >= 1 /\ ~same) => ~InOut(WindowAt(i))
                /\ (t >= 1 /\ same) => (InOut(WindowAt(i)) <=> StatedRest(i))
                /\ t = 0 => (InOut(WindowAt(i)) <=> StatedRest(i))

\* A window returned through a tail of two candles both of which point the
\* other way than the reference's.
C22_Witness ==
    /\ wm.pc = "done"
    /\ wm.opts.TailLen = 2
    /\ Len(wm.segment.candles) = 3
    /\ \E i \in 0..(Len(wm.candles) - 3) :
          /\ InOut(WindowAt(i))
          /\ \A k \in 1..2 :
                (WindowAt(i).candles[k].open < WindowAt(i).candles[k].close)
                    # (wm.segment.candles[k].open < wm.segment.candles[k].close)

\* What the loop sends for the ticker when it is run with tail length t in
\* the options.
RECURSIVE OutFrom(_, _)
OutFrom(t, i) ==
    IF i + Len(wm.segment.candles) > Len(wm.candles) THEN << >>
    ELSE windowMatch(wm.segment, [wm.options EXCEPT !.TailLen = t],
                     wm.ticker, wm.candles, i)
         \o OutFrom(t, i + 1)

\* C23: the tail length in force is options.tailLen brought within [0, L];
\* a negative tailLen gives what tailLen = 0 gives, and with
\* options.tailLen >= L nothing is returned, whatever was fetched.
C23_TailLenClamped ==
    wm.pc = "done" =>
        LET L == Len(wm.segment.candles)
            t == wm.options.TailLen
        IN  /\ wm.opts.TailLen = IF t < 0 THEN 0 ELSE IF t > L THEN L ELSE t
            /\ t < 0 => wm.out = OutFrom(0, 0)
            /\ t >= L => wm.out = << >>

\* Nothing is returned under tailLen >= L although a window on another
\* ticker repeats the reference candle for candle.
C23_Witness ==
    /\ wm.pc = "done"
    /\ wm.options.TailLen >= Len(wm.segment.candles)
    /\ wm.ticker # wm.segment.ticker
    /\ wm.out = << >>
    /\ \E i \in 0..(Len(wm.candles) - Len(wm.segment.candles)) :
          \A k \in DOMAIN wm.segment.candles :
              /\ WindowAt(i).candles[k].open = wm.segment.candles[k].open
              /\ WindowAt(i).candles[k].high = wm.segment.candles[k].high
              /\ WindowAt(i).candles[k].close = wm.segment.candles[k].close

(***************************************************************************)
(*              THE WINDOWS OF THE CHART SCANNER'S RESULT                  *)
(***************************************************************************)

\* The least and the greatest window length of the statement, for a
\* reference of L candles and a ticker of n candles, the scales being those
\* in force.
StatedMinLen(q) ==
    LET lo == (Len(q.Segment.Candles) * ChartWithDefaults(q.Options).MinScale) \div Unit
    IN  IF lo < 1 THEN 1 ELSE lo
StatedMaxLen(q, n) ==
    LET hi == (Len(q.Segment.Candles) * ChartWithDefaults(q.Options).MaxScale) \div Unit
    IN  IF n < hi THEN n ELSE hi

\* seg is a run of consecutive candles of the k-th fetch, of an allowed
\* length, under the ticker fetched and dated by its ends.
IsWindowOf(seg, k) ==
    LET f == ch.fetched[k]
        n == Len(f.out.candles)
    IN  /\ ~f.out.err
        /\ seg.ticker = f.ticker
        /\ \E i \in 1..Len(ch.query.Tickers) : ch.query.Tickers[i] = seg.ticker
        /\ \E windowLen \in StatedMinLen(ch.query)..StatedMaxLen(ch.query, n) :
             \E start \in 0..(n - windowLen) :
                /\ seg.candles = SubSeq(f.out.candles, start + 1, start + windowLen)
                /\ seg.from = f.out.candles[start + 1].date
                /\ seg.to = f.out.candles[start + windowLen].date

\* C24: every segment the chart scanner returns is windowLen consecutive
\* fetched candles of one requested ticker, with
\* max(1, floor(L * minScale)) <= windowLen <= min(n, floor(L * maxScale)),
\* from and to the dates of its first and last candle; tickers with fewer
\* than minLen candles, and queries with minLen > maxLen, give no match.
C24_ResultIsAllowedWindows ==
    (IsChartScan /\ ch.pc = "done") =>
        /\ \A j \in DOMAIN ch.result.segs :
              \E k \in DOMAIN ch.fetched : IsWindowOf(ch.result.segs[j], k)
        /\ StatedMinLen(ch.query)
             > (Len(ch.query.Segment.Candles) * ChartWithDefaults(ch.query.Options).MaxScale) \div Unit
               => ch.result.segs = << >>
        /\ (\A k \in DOMAIN ch.fetched :
               Len(ch.fetched[k].out.candles) < StatedMinLen(ch.query))
               => ch.result.segs = << >>

\* A scan that returned a window of another length than the reference's.
C24_Witness ==
    /\ ch.pc = "done"
    /\ \E j \in DOMAIN ch.result.segs :
          Len(ch.result.segs[j].candles) # Len(ch.query.Segment.Candles)


\* ---------------------------------------------------------------------------
\* THE ORDER AND THE SUPPRESSIONS OF THE CHART SCANNER'S RESULT
\* ---------------------------------------------------------------------------

\* Scans with the default scales and the widest tolerance, 1: windows at
\* different distances from the reference pass the gates.
ChWideInit ==
    /\ ch \in [pc : {"called"}, s : Scanners,
               query : [Segment : [Candles : ChartReferences],
                        Tickers : ChartTickerLists \ {<<"A", "A">>},
                        Options : {ChartOption(0, 0, Unit)}],
               tickerCh : {<< >>},
               workers : {<< >>}, allMatches : {<< >>}, result : {NilList},
               fetched : {<< >>}, err : {FALSE}, seedVec : {<< >>}, mu : {0}]
    /\ ttl = 0 /\ store = << >> /\ req = << >>
    /\ hq = << >> /\ hres = << >> /\ ov = << >>
    /\ cs = << >> /\ ev = << >>
    /\ fe = << >> /\ dt = << >> /\ wm = << >>

SpecChartWide == ChWideInit /\ [][ChNext]_vars

\* The Distance of a segment of the result: that of the gathered match
\* carrying it (matches carrying the same segment have one Distance).
DistanceOf(seg) ==
    (CHOOSE m \in {ch.allMatches[i] : i \in DOMAIN ch.allMatches} :
         m.Segment = seg).Distance

\* The segment is one of the result.
Returned(seg) == \E j \in DOMAIN ch.result.segs : ch.result.segs[j] = seg

\* C25: when a chart scan has returned, the segments of its result are in
\* non-decreasing order of Distance, and every window that passed both gates
\* (every gathered match, of any ticker and window length) that is not in the
\* result overlaps a returned segment whose Distance is at most its own.
C25_SuppressionIsBestFirst ==
    (ch.pc = "done" /\ ~ch.result.isNil) =>
        /\ \A i, j \in DOMAIN ch.result.segs :
              i < j => DistanceOf(ch.result.segs[i]) <= DistanceOf(ch.result.segs[j])
        /\ \A k \in DOMAIN ch.allMatches :
              ~Returned(ch.allMatches[k].Segment) =>
                  \E j \in DOMAIN ch.result.segs :
                      /\ Overlapping(ch.allMatches[k].Segment, ch.result.segs[j])
                      /\ DistanceOf(ch.result.segs[j]) <= ch.allMatches[k].Distance

\* A scan returned segments of different Distances and suppressed a window
\* whose Distance is greater than that of a returned segment it overlaps.
C25_Witness ==
    /\ ch.pc = "done" /\ ~ch.result.isNil
    /\ \E i, j \in DOMAIN ch.result.segs :
          DistanceOf(ch.result.segs[i]) < DistanceOf(ch.result.segs[j])
    /\ \E k \in DOMAIN ch.allMatches :
          /\ ~Returned(ch.allMatches[k].Segment)
          /\ \E j \in DOMAIN ch.result.segs :
                /\ Overlapping(ch.allMatches[k].Segment, ch.result.segs[j])
                /\ DistanceOf(ch.result.segs[j]) < ch.allMatches[k].Distance


\* ---------------------------------------------------------------------------
\* THE FETCHES AND THE MOVE OF ONE MATCH
\* ---------------------------------------------------------------------------

\* The calls made for the match the loop has just left, and the answer of
\* the last of them.
CallsOfLast == ev'.calls[Len(ev'.calls)]
LastAnswer  == CallsOfLast[Len(CallsOfLast)].out

\* The counts after a match whose move over its forward candles is delta.
StatedCounts(acc, delta, open) ==
    [considered   |-> acc.considered + 1,
     posCtr       |-> acc.posCtr + (IF delta >= 0 THEN 1 ELSE 0),
     posSumChange |-> IF delta >= 0 THEN RatAdd(acc.posSumChange, Rat(delta, open))
                      ELSE acc.posSumChange,
     negSumChange |-> IF delta >= 0 THEN acc.negSumChange
                      ELSE RatAdd(acc.negSumChange, Rat(delta, open))]

\* close - open summed over the first k candles.
RECURSIVE BodySum(_, _)
BodySum(candles, k) ==
    IF k <= 0 \/ candles = << >> THEN 0
    ELSE Head(candles).close - Head(candles).open + BodySum(Tail(candles), k - 1)

\* C26: in the fixed-horizon mode with daysToWatch = N > 0 every match has
\* one Fetch up to To + N days and, only when that one succeeded with fewer
\* than N candles, exactly one more up to To + N + 1 days; the match is
\* counted exactly when the last Fetch made for it succeeded with at least
\* one candle, and then with the sum of close - open over its first
\* min(N, number fetched) candles as its move.
C26_FixedHorizonFetches ==
    [][(ev # << >> /\ ev.pc = "fixed" /\ ev.daysToWatch > 0 /\ ev'.next = ev.next + 1) =>
          LET N       == ev.daysToWatch
              first   == CallsOfLast[1]
              counted == ~LastAnswer.err /\ Len(LastAnswer.candles) >= 1
          IN  /\ Len(CallsOfLast) \in {1, 2}
              /\ first.days = N
              /\ Len(CallsOfLast) = 2 <=>
                    (~first.out.err /\ Len(first.out.candles) < N)
              /\ Len(CallsOfLast) = 2 => CallsOfLast[2].days = N + 1
              /\ IF counted
                 THEN ev'.acc = StatedCounts(ev.acc,
                                    BodySum(LastAnswer.candles,
                                            Min(N, Len(LastAnswer.candles))),
                                    LastAnswer.candles[1].open)
                 ELSE ev'.acc = ev.acc]_vars

\* A match of a two-day horizon was fetched twice, the first Fetch having
\* returned one candle, and was counted on the candles of the second.
C26_Witness ==
    /\ ev # << >> /\ ev.pc = "fixed" /\ ev.daysToWatch = 2
    /\ ev.acc.considered = 1 /\ Len(ev.calls) = 1
    /\ Len(ev.calls[1]) = 2
    /\ Len(ev.calls[1][1].out.candles) = 1
    /\ Len(ev.calls[1][2].out.candles) = 3


\* The candle rises or stays: close - open >= 0.
Rises(c) == c.close - c.open >= 0

\* The length of the longest prefix of candles going the way of the first.
TrendLen(candles) ==
    CHOOSE k \in 1..Len(candles) :
        /\ \A j \in 1..k : Rises(candles[j]) = Rises(candles[1])
        /\ k < Len(candles) => Rises(candles[k + 1]) # Rises(candles[1])

\* C27: in the line-trend mode (daysToWatch = 0) every match has exactly one
\* Fetch, up to To + 30 days; a match with forward candles is counted with
\* the sum of close - open over the longest prefix of the candles whose
\* body sign is that of the first one, hence in the positive direction
\* exactly when the first forward candle has close >= open.
C27_LineTrendFetchesOnce ==
    [][(ev # << >> /\ ev.pc = "line" /\ ev'.next = ev.next + 1) =>
          /\ ev.daysToWatch = 0
          /\ Len(CallsOfLast) = 1
          /\ CallsOfLast[1].days = 30
          /\ IF ~LastAnswer.err /\ Len(LastAnswer.candles) >= 1
             THEN /\ ev'.acc = StatedCounts(ev.acc,
                                    BodySum(LastAnswer.candles,
                                            TrendLen(LastAnswer.candles)),
                                    LastAnswer.candles[1].open)
                  /\ (ev'.acc.posCtr = ev.acc.posCtr + 1)
                        <=> Rises(LastAnswer.candles[1])
             ELSE ev'.acc = ev.acc]_vars

\* A match of the line-trend mode was counted as falling on forward candles
\* that fall twice and then rise.
C27_Witness ==
    /\ ev # << >> /\ ev.pc = "line"
    /\ Len(ev.calls) = 1 /\ Len(ev.calls[1]) = 1
    /\ Len(ev.calls[1][1].out.candles) = 3
    /\ ~Rises(ev.calls[1][1].out.candles[1])
    /\ Rises(ev.calls[1][1].out.candles[3])
    /\ ev.acc.considered = 1 /\ ev.acc.posCtr = 0


\* The counter priceChange is divided by: posCtr when the positive side
\* prevails, considered - posCtr otherwise.
Divisor(acc) ==
    IF acc.posCtr > acc.considered - acc.posCtr THEN acc.posCtr
    ELSE acc.considered - acc.posCtr

\* C30: whenever ComputeStats, in either mode, returns totalMatches > 0, the
\* counter priceChange was divided by is at least 1 (the quotient has a
\* denominator that is not zero) and the probability is at least 1/2.
C30_DivisorIsPositive ==
    (ev # << >> /\ ev.pc = "done" /\ ev.result.TotalMatches > 0) =>
        /\ Divisor(ev.acc) >= 1
        /\ ev.result.PriceChange.den >= 1
        /\ ev.result.Probability.den >= 1
        /\ 2 * ev.result.Probability.num >= ev.result.Probability.den

\* ComputeStats returned for two counted matches, one on each side: the
\* divisor is 1 and the probability exactly 1/2.
C30_Witness ==
    /\ ev # << >> /\ ev.pc = "done" /\ ev.result.TotalMatches = 2
    /\ ev.acc.posCtr = 1
    /\ 2 * ev.result.Probability.num = ev.result.Probability.den


(***************************************************************************)
(*                      DTW AS A FUNCTION OF ITS OWN                       *)
(*                         (pkg/utils/dtw.go)                              *)
(*                                                                         *)
(* The samples are whole numbers here, so that inf is 1e9 exactly.         *)
(***************************************************************************)

\* A sample above inf.
Huge == 1050000000

\* Short vectors over three levels, each paired with each, and the pairs of
\* a flat vector with one that starts above inf.
DtwShortVectors == UNION {[1..n -> {0, 1, 2}] : n \in 1..MaxVecLen}
DtwPairs ==
    (DtwShortVectors \X DtwShortVectors)
    \cup {<< <<0, 0>>, <<Huge, 0>> >>, << <<Huge, 0>>, <<0, 0>> >>,
          << <<Huge, 0>>, <<Huge, 0>> >>}
DtwCostLimits == {0, 1, 3, Huge}

\* A call of DTW on a pair of vectors.
DcInit ==
    /\ \E p \in DtwPairs :
          dt \in [pc : {"bound"}, R : {Len(p[1])},
                  seedVec : {p[1]}, candidateVec : {p[2]},
                  maxCost : DtwCostLimits,
                  lower : {<< >>}, upper : {<< >>}, lb : {0}, d : {0}]
    /\ ttl = 0 /\ store = << >> /\ req = << >>
    /\ hq = << >> /\ hres = << >> /\ ov = << >>
    /\ ch = << >> /\ cs = << >> /\ ev = << >> /\ fe = << >> /\ wm = << >>

SpecDtwCost == DcInit /\ [][Cost]_vars

\* The cost of the best warping path from (1, 1) to (i, j): the sum of
\* |a[i] - b[j]| along it, with no limit and no sentinel.
RECURSIVE PathCost(_, _, _, _)
PathCost(a, b, i, j) ==
    Abs(a[i] - b[j])
    + (IF i = 1 /\ j = 1 THEN 0
       ELSE IF i = 1 THEN PathCost(a, b, 1, j - 1)
       ELSE IF j = 1 THEN PathCost(a, b, i - 1, 1)
       ELSE Min(PathCost(a, b, i - 1, j - 1),
                Min(PathCost(a, b, i - 1, j), PathCost(a, b, i, j - 1))))
UnboundedCost(a, b) == PathCost(a, b, Len(a), Len(b))

\* C28: for non-empty a and b, DTW(a, b, maxCost) answers -1 only if the
\* unbounded DTW cost of a and b is above maxCost, and otherwise answers
\* exactly that cost, which is not negative and is 0 when a = b.
C28_DtwIsExactOrAbandons ==
    (dt # << >> /\ dt.pc = "done") =>
        LET cost == UnboundedCost(dt.seedVec, dt.candidateVec)
        IN  /\ cost >= 0
            /\ dt.seedVec = dt.candidateVec => cost = 0
            /\ IF dt.d = -1 THEN cost > dt.maxCost ELSE dt.d = cost


(***************************************************************************)
(*                THE SCANNER TASK OF AN ANSWERED REQUEST                  *)
(*     (services/scanner/scanner.go, FindCandleMatches/FindChartMatches)    *)
(***************************************************************************)

\* The next request, once the scanner task of the answered one is not at
\* its send: the task goes on after its handler has returned, and is
\* followed here until it has sent.
NextRequestAfterSend ==
    /\ req.scan # "returned"
    /\ NextRequest

SvcLiveNext ==
    \/ FindCandleMatches
    \/ FindChartMatches
    \/ ComputeCandleStats
    \/ ComputeChartStats
    \/ Cancel
    \/ ScanReturn
    \/ ScanSend
    \/ Select
    \/ Wake
    \/ SetScanTask
    \/ NextRequestAfterSend
    \/ \E h \in Hashes : Expire(h)

\* A service of one TTL. The scanner task is a goroutine of its own: a send
\* that can be done is done. Nothing is assumed of the scan itself, of the
\* client or of the cache.
SvcLiveInit ==
    /\ ttl = MaxTtl
    /\ store = [h \in Hashes |-> NoEntry]
    /\ req = IdleReq
    /\ hq = << >> /\ hres = << >>
    /\ ov = << >> /\ ch = << >> /\ cs = << >> /\ ev = << >>
    /\ fe = << >> /\ dt = << >> /\ wm = << >>

SpecSvcLive == SvcLiveInit /\ [][SvcLiveNext]_vars /\ WF_vars(ScanSend)

\* The handler has answered with the cancellation error and the task it
\* left behind has finished its scan and is at its send.
Abandoned ==
    /\ req.pc = "done" /\ req.resp = ErrResp(req.op, "canceled")
    /\ req.scan = "returned"

\* C29: a scanner task whose scan has finished finds room on resCh (it is
\* the only sender, once, on a channel of capacity 1), also after the
\* handler has returned the cancellation error; so it sends and exits, and
\* no task stays at its send forever.
C29_AbandonedTaskExits ==
    /\ [](req.scan = "returned" => Len(req.resCh) < ResChCap)
    /\ [](Abandoned => req.resCh = << >>)
    /\ Abandoned ~> (req.scan = "exited" /\ req.resCh = << req.scanRes >>)
    /\ (req.scan = "returned") ~> (req.scan = "exited")

\* The handler returned the cancellation error while the scan was running,
\* and the scan has finished since.
C29_Witness == Abandoned /\ req.cancelEarly

====
